---- MODULE Spec2Model ----
(***************************************************************************)
(* Model of proxybase-mcp (src/src/main.rs): a line-delimited JSON-RPC 2.0 *)
(* (MCP) server on stdin/stdout that maps tool calls to requests against   *)
(* the ProxyBase REST backend.                                             *)
(*                                                                         *)
(* JSON values (serde_json::Value) are tagged records:                     *)
(*   [t |-> "null"], [t |-> "bool", b |-> ..], [t |-> "num", n |-> ..],    *)
(*   [t |-> "str", s |-> ..], [t |-> "arr", a |-> <<..>>],                 *)
(*   [t |-> "obj", o |-> [keys -> values]]                                 *)
(* Option<T> is [some |-> FALSE] or [some |-> TRUE, v |-> x];              *)
(* Result<Value, String> is [ok |-> TRUE, v |-> x] or [ok |-> FALSE,       *)
(* e |-> message].                                                         *)
(***************************************************************************)
EXTENDS Integers, Sequences, FiniteSets, TLC

VARIABLES client, pc, line_no, line, req, replies, sent, response, stdout_line,
          written, flushed

vars == <<client, pc, line_no, line, req, replies, sent, response, stdout_line,
          written, flushed>>

\* Number of input lines the transport loop reads before end-of-stream.
MaxLines == 2

---------------------------------------------------------------------------
\* serde_json::Value, Option and Result

JNull == [t |-> "null"]
JBool(b) == [t |-> "bool", b |-> b]
JNum(n) == [t |-> "num", n |-> n]
JStr(s) == [t |-> "str", s |-> s]
JArr(a) == [t |-> "arr", a |-> a]
JObj(o) == [t |-> "obj", o |-> o]

\* the empty object json!({})
EmptyObj == JObj([k \in {} |-> JNull])

None == [some |-> FALSE]
Some(x) == [some |-> TRUE, v |-> x]

Ok(x) == [ok |-> TRUE, v |-> x]
Err(m) == [ok |-> FALSE, e |-> m]

\* Value::get(key) with a string index: only objects have members
get(val, key) ==
    IF val.t = "obj" /\ key \in DOMAIN val.o THEN Some(val.o[key]) ELSE None

\* Value::as_str
as_str(val) == IF val.t = "str" THEN Some(val.s) ELSE None

\* Value::as_array
as_array(val) == IF val.t = "arr" THEN Some(val.a) ELSE None

\* Option<&Value>.and_then(|v| v.as_str())
opt_as_str(o) == IF o.some THEN as_str(o.v) ELSE None

\* Option::unwrap_or
unwrap_or(o, d) == IF o.some THEN o.v ELSE d

---------------------------------------------------------------------------
\* Characters.  A string here holds characters of the Basic Multilingual
\* Plane, one element each; those that can be written in a string of this
\* module are U+0001 to U+00FF without U+0060, and the upper half, U+xx80 to
\* U+xxFF, of every other row.  No other character has a code here, and no
\* code but theirs has a character: for a text that would hold one, the
\* definitions below have no value.

\* U+0001 to U+001F
Controls == "\t\n\f\r"

\* U+0020 to U+007F, without U+0060
Ascii ==
    " !\"#$%&'()*+,-./0123456789:;<=>?@ABCDEFGHIJKLMNOPQRSTUVWXYZ[\\]^_abcdefghijklmnopqrstuvwxyz{|}~"

\* U+xx80 to U+xxFF of the rows 00 to D7 and E0 to FF, row after row
HighChars ==
    " ¡¢£¤¥¦§¨©ª«¬­®¯°±²³´µ¶·¸¹º»¼½¾¿ÀÁÂÃÄÅÆÇÈÉÊËÌÍÎÏÐÑÒÓÔÕÖ×ØÙÚÛÜÝÞßàáâãäåæçèéêëìíîïðñòóôõö÷øùúûüýþÿƀƁƂƃƄƅƆƇƈƉƊƋƌƍƎƏƐƑƒƓƔƕƖƗƘƙƚƛƜƝƞƟƠơƢƣƤƥƦƧƨƩƪƫƬƭƮƯưƱƲƳƴƵƶƷƸƹƺƻƼƽƾƿǀǁǂǃǄǅǆǇǈǉǊǋǌǍǎǏǐǑǒǓǔǕǖǗǘǙǚǛǜǝǞǟǠǡǢǣǤǥǦǧǨǩǪǫǬǭǮǯǰǱǲǳǴǵǶǷǸǹǺǻǼǽǾǿʀʁʂʃʄʅʆʇʈʉʊʋʌʍʎʏʐʑʒʓʔʕʖʗʘʙʚʛʜʝʞʟʠʡʢʣʤʥʦʧʨʩʪʫʬʭʮʯʰʱʲʳʴʵʶʷʸʹʺʻʼʽʾʿˀˁ˂˃˄˅ˆˇˈˉˊˋˌˍˎˏːˑ˒˓˔˕˖˗˘˙˚˛˜˝˞˟ˠˡˢˣˤ˥˦˧˨˩˪˫ˬ˭ˮ˯˰˱˲˳˴˵˶˷˸˹˺˻˼˽˾˿΀΁΂΃΄΅Ά·ΈΉΊ΋Ό΍ΎΏΐΑΒΓΔΕΖΗΘΙΚΛΜΝΞΟΠΡ΢ΣΤΥΦΧΨΩΪΫάέήίΰαβγδεζηθικλμνξοπρςστυφχψωϊϋόύώϏϐϑϒϓϔϕϖϗϘϙϚϛϜϝϞϟϠϡϢϣϤϥϦϧϨϩϪϫϬϭϮϯϰϱϲϳϴϵ϶ϷϸϹϺϻϼϽϾϿҀҁ҂҃҄҅҆҇҈҉ҊҋҌҍҎҏҐґҒғҔҕҖҗҘҙҚқҜҝҞҟҠҡҢңҤҥҦҧҨҩҪҫҬҭҮүҰұҲҳҴҵҶҷҸҹҺһҼҽҾҿӀӁӂӃӄӅӆӇӈӉӊӋӌӍӎӏӐӑӒӓӔӕӖӗӘәӚӛӜӝӞӟӠӡӢӣӤӥӦӧӨөӪӫӬӭӮӯӰӱӲӳӴӵӶӷӸӹӺӻӼӽӾӿրցւփքօֆևֈ։֊֋֌֍֎֏֐ְֱֲֳִֵֶַָֹֺֻּֽ֑֖֛֢֣֤֥֦֧֪֚֭֮֒֓֔֕֗֘֙֜֝֞֟֠֡֨֩֫֬֯־ֿ׀ׁׂ׃ׅׄ׆ׇ׈׉׊׋׌׍׎׏אבגדהוזחטיךכלםמןנסעףפץצקרשת׫׬׭׮ׯװױײ׳״׵׶׷׸׹׺׻׼׽׾׿ڀځڂڃڄڅچڇڈډڊڋڌڍڎڏڐڑڒړڔڕږڗژڙښڛڜڝڞڟڠڡڢڣڤڥڦڧڨکڪګڬڭڮگڰڱڲڳڴڵڶڷڸڹںڻڼڽھڿۀہۂۃۄۅۆۇۈۉۊۋیۍێۏېۑےۓ۔ەۖۗۘۙۚۛۜ۝۞ۣ۟۠ۡۢۤۥۦۧۨ۩۪ۭ۫۬ۮۯ۰۱۲۳۴۵۶۷۸۹ۺۻۼ۽۾ۿހށނރބޅކއވމފދތލގޏސޑޒޓޔޕޖޗޘޙޚޛޜޝޞޟޠޡޢޣޤޥަާިީުޫެޭޮޯްޱ޲޳޴޵޶޷޸޹޺޻޼޽޾޿߀߁߂߃߄߅߆߇߈߉ߊߋߌߍߎߏߐߑߒߓߔߕߖߗߘߙߚߛߜߝߞߟߠߡߢߣߤߥߦߧߨߩߪ߲߫߬߭߮߯߰߱߳ߴߵ߶߷߸߹ߺ߻߼߽߾߿ࢀࢁࢂࢃࢄࢅࢆࢇ࢈ࢉࢊࢋࢌࢍࢎ࢏࢐࢑࢒࢓࢔࢕࢖࢙࢚࢛ࢗ࢘࢜࢝࢞࢟ࢠࢡࢢࢣࢤࢥࢦࢧࢨࢩࢪࢫࢬࢭࢮࢯࢰࢱࢲࢳࢴࢵࢶࢷࢸࢹࢺࢻࢼࢽࢾࢿࣀࣁࣂࣃࣄࣅࣆࣇࣈࣉ࣏࣐࣑࣒࣓࣊࣋࣌࣍࣎ࣔࣕࣖࣗࣘࣙࣚࣛࣜࣝࣞࣟ࣠࣡࣢ࣰࣱࣲࣣࣦࣩ࣭࣮࣯ࣶࣹࣺࣤࣥࣧࣨ࣪࣫࣬ࣳࣴࣵࣷࣸࣻࣼࣽࣾࣿঀঁংঃ঄অআইঈউঊঋঌ঍঎এঐ঑঒ওঔকখগঘঙচছজঝঞটঠডঢণতথদধন঩পফবভমযর঱ল঳঴঵শষসহ঺঻়ঽািীুূৃৄ৅৆েৈ৉৊োৌ্ৎ৏৐৑৒৓৔৕৖ৗ৘৙৚৛ড়ঢ়৞য়ৠৡৢৣ৤৥০১২৩৪৫৬৭৮৯ৰৱ৲৳৴৵৶৷৸৹৺৻ৼ৽৾৿઀ઁંઃ઄અઆઇઈઉઊઋઌઍ઎એઐઑ઒ઓઔકખગઘઙચછજઝઞટઠડઢણતથદધન઩પફબભમયર઱લળ઴વશષસહ઺઻઼ઽાિીુૂૃૄૅ૆ેૈૉ૊ોૌ્૎૏ૐ૑૒૓૔૕૖૗૘૙૚૛૜૝૞૟ૠૡૢૣ૤૥૦૧૨૩૪૫૬૭૮૯૰૱૲૳૴૵૶૷૸ૹૺૻૼ૽૾૿஀஁ஂஃ஄அஆஇஈஉஊ஋஌஍எஏஐ஑ஒஓஔக஖஗஘ஙச஛ஜ஝ஞட஠஡஢ணத஥஦஧நனப஫஬஭மயரறலளழவஶஷஸஹ஺஻஼஽ாிீுூ௃௄௅ெேை௉ொோௌ்௎௏ௐ௑௒௓௔௕௖ௗ௘௙௚௛௜௝௞௟௠௡௢௣௤௥௦௧௨௩௪௫௬௭௮௯௰௱௲௳௴௵௶௷௸௹௺௻௼௽௾௿ಀಁಂಃ಄ಅಆಇಈಉಊಋಌ಍ಎಏಐ಑ಒಓಔಕಖಗಘಙಚಛಜಝಞಟಠಡಢಣತಥದಧನ಩ಪಫಬಭಮಯರಱಲಳ಴ವಶಷಸಹ಺಻಼ಽಾಿೀುೂೃೄ೅ೆೇೈ೉ೊೋೌ್೎೏೐೑೒೓೔ೕೖ೗೘೙೚೛೜ೝೞ೟ೠೡೢೣ೤೥೦೧೨೩೪೫೬೭೮೯೰ೱೲೳ೴೵೶೷೸೹೺೻೼೽೾೿඀ඁංඃ඄අආඇඈඉඊඋඌඍඎඏඐඑඒඓඔඕඖ඗඘඙කඛගඝඞඟචඡජඣඤඥඦටඨඩඪණඬතථදධන඲ඳපඵබභමඹයර඼ල඾඿වශෂසහළෆ෇෈෉්෋෌෍෎ාැෑිීු෕ූ෗ෘෙේෛොෝෞෟ෠෡෢෣෤෥෦෧෨෩෪෫෬෭෮෯෰෱ෲෳ෴෵෶෷෸෹෺෻෼෽෾෿຀ກຂ຃ຄ຅ຆງຈຉຊ຋ຌຍຎຏຐຑຒຓດຕຖທຘນບປຜຝພຟຠມຢຣ຤ລ຦ວຨຩສຫຬອຮຯະັາຳິີຶື຺ຸູົຼຽ຾຿ເແໂໃໄ໅ໆ໇່້໊໋໌ໍ໎໏໐໑໒໓໔໕໖໗໘໙໚໛ໜໝໞໟ໠໡໢໣໤໥໦໧໨໩໪໫໬໭໮໯໰໱໲໳໴໵໶໷໸໹໺໻໼໽໾໿྄ཱྀྀྂྃ྅྆྇ྈྉྊྋྌྍྎྏྐྑྒྒྷྔྕྖྗ྘ྙྚྛྜྜྷྞྟྠྡྡྷྣྤྥྦྦྷྨྩྪྫྫྷྭྮྯྰྱྲླྴྵྶྷྸྐྵྺྻྼ྽྾྿࿀࿁࿂࿃࿄࿅࿆࿇࿈࿉࿊࿋࿌࿍࿎࿏࿐࿑࿒࿓࿔࿕࿖࿗࿘࿙࿚࿛࿜࿝࿞࿟࿠࿡࿢࿣࿤࿥࿦࿧࿨࿩࿪࿫࿬࿭࿮࿯࿰࿱࿲࿳࿴࿵࿶࿷࿸࿹࿺࿻࿼࿽࿾࿿ႀႁႂႃႄႅႆႇႈႉႊႋႌႍႎႏ႐႑႒႓႔႕႖႗႘႙ႚႛႜႝ႞႟ႠႡႢႣႤႥႦႧႨႩႪႫႬႭႮႯႰႱႲႳႴႵႶႷႸႹႺႻႼႽႾႿჀჁჂჃჄჅ჆Ⴧ჈჉჊჋჌Ⴭ჎჏აბგდევზთიკლმნოპჟრსტუფქღყშჩცძწჭხჯჰჱჲჳჴჵჶჷჸჹჺ჻ჼჽჾჿᆀᆁᆂᆃᆄᆅᆆᆇᆈᆉᆊᆋᆌᆍᆎᆏᆐᆑᆒᆓᆔᆕᆖᆗᆘᆙᆚᆛᆜᆝᆞᆟᆠᆡᆢᆣᆤᆥᆦᆧᆨᆩᆪᆫᆬᆭᆮᆯᆰᆱᆲᆳᆴᆵᆶᆷᆸᆹᆺᆻᆼᆽᆾᆿᇀᇁᇂᇃᇄᇅᇆᇇᇈᇉᇊᇋᇌᇍᇎᇏᇐᇑᇒᇓᇔᇕᇖᇗᇘᇙᇚᇛᇜᇝᇞᇟᇠᇡᇢᇣᇤᇥᇦᇧᇨᇩᇪᇫᇬᇭᇮᇯᇰᇱᇲᇳᇴᇵᇶᇷᇸᇹᇺᇻᇼᇽᇾᇿኀኁኂኃኄኅኆኇኈ኉ኊኋኌኍ኎኏ነኑኒናኔንኖኗኘኙኚኛኜኝኞኟአኡኢኣኤእኦኧከኩኪካኬክኮኯኰ኱ኲኳኴኵ኶኷ኸኹኺኻኼኽኾ኿ዀ዁ዂዃዄዅ዆዇ወዉዊዋዌውዎዏዐዑዒዓዔዕዖ዗ዘዙዚዛዜዝዞዟዠዡዢዣዤዥዦዧየዩዪያዬይዮዯደዱዲዳዴድዶዷዸዹዺዻዼዽዾዿᎀᎁᎂᎃᎄᎅᎆᎇᎈᎉᎊᎋᎌᎍᎎᎏ᎐᎑᎒᎓᎔᎕᎖᎗᎘᎙᎚᎛᎜᎝᎞᎟ᎠᎡᎢᎣᎤᎥᎦᎧᎨᎩᎪᎫᎬᎭᎮᎯᎰᎱᎲᎳᎴᎵᎶᎷᎸᎹᎺᎻᎼᎽᎾᎿᏀᏁᏂᏃᏄᏅᏆᏇᏈᏉᏊᏋᏌᏍᏎᏏᏐᏑᏒᏓᏔᏕᏖᏗᏘᏙᏚᏛᏜᏝᏞᏟᏠᏡᏢᏣᏤᏥᏦᏧᏨᏩᏪᏫᏬᏭᏮᏯᏰᏱᏲᏳᏴᏵ᏶᏷ᏸᏹᏺᏻᏼᏽ᏾᏿ᒀᒁᒂᒃᒄᒅᒆᒇᒈᒉᒊᒋᒌᒍᒎᒏᒐᒑᒒᒓᒔᒕᒖᒗᒘᒙᒚᒛᒜᒝᒞᒟᒠᒡᒢᒣᒤᒥᒦᒧᒨᒩᒪᒫᒬᒭᒮᒯᒰᒱᒲᒳᒴᒵᒶᒷᒸᒹᒺᒻᒼᒽᒾᒿᓀᓁᓂᓃᓄᓅᓆᓇᓈᓉᓊᓋᓌᓍᓎᓏᓐᓑᓒᓓᓔᓕᓖᓗᓘᓙᓚᓛᓜᓝᓞᓟᓠᓡᓢᓣᓤᓥᓦᓧᓨᓩᓪᓫᓬᓭᓮᓯᓰᓱᓲᓳᓴᓵᓶᓷᓸᓹᓺᓻᓼᓽᓾᓿᖀᖁᖂᖃᖄᖅᖆᖇᖈᖉᖊᖋᖌᖍᖎᖏᖐᖑᖒᖓᖔᖕᖖᖗᖘᖙᖚᖛᖜᖝᖞᖟᖠᖡᖢᖣᖤᖥᖦᖧᖨᖩᖪᖫᖬᖭᖮᖯᖰᖱᖲᖳᖴᖵᖶᖷᖸᖹᖺᖻᖼᖽᖾᖿᗀᗁᗂᗃᗄᗅᗆᗇᗈᗉᗊᗋᗌᗍᗎᗏᗐᗑᗒᗓᗔᗕᗖᗗᗘᗙᗚᗛᗜᗝᗞᗟᗠᗡᗢᗣᗤᗥᗦᗧᗨᗩᗪᗫᗬᗭᗮᗯᗰᗱᗲᗳᗴᗵᗶᗷᗸᗹᗺᗻᗼᗽᗾᗿ ᚁᚂᚃᚄᚅᚆᚇᚈᚉᚊᚋᚌᚍᚎᚏᚐᚑᚒᚓᚔᚕᚖᚗᚘᚙᚚ᚛᚜᚝᚞᚟ᚠᚡᚢᚣᚤᚥᚦᚧᚨᚩᚪᚫᚬᚭᚮᚯᚰᚱᚲᚳᚴᚵᚶᚷᚸᚹᚺᚻᚼᚽᚾᚿᛀᛁᛂᛃᛄᛅᛆᛇᛈᛉᛊᛋᛌᛍᛎᛏᛐᛑᛒᛓᛔᛕᛖᛗᛘᛙᛚᛛᛜᛝᛞᛟᛠᛡᛢᛣᛤᛥᛦᛧᛨᛩᛪ᛫᛬᛭ᛮᛯᛰᛱᛲᛳᛴᛵᛶᛷᛸ᛹᛺᛻᛼᛽᛾᛿កខគឃងចឆជឈញដឋឌឍណតថទធនបផពភមយរលវឝឞសហឡអឣឤឥឦឧឨឩឪឫឬឭឮឯឰឱឲឳ឴឵ាិីឹឺុូួើឿៀេែៃោៅំះៈ៉៊់៌៍៎៏័៑្៓។៕៖ៗ៘៙៚៛ៜ៝៞៟០១២៣៤៥៦៧៨៩៪៫៬៭៮៯៰៱៲៳៴៵៶៷៸៹៺៻៼៽៾៿ᢀᢁᢂᢃᢄᢅᢆᢇᢈᢉᢊᢋᢌᢍᢎᢏᢐᢑᢒᢓᢔᢕᢖᢗᢘᢙᢚᢛᢜᢝᢞᢟᢠᢡᢢᢣᢤᢥᢦᢧᢨᢩᢪ᢫᢬᢭᢮᢯ᢰᢱᢲᢳᢴᢵᢶᢷᢸᢹᢺᢻᢼᢽᢾᢿᣀᣁᣂᣃᣄᣅᣆᣇᣈᣉᣊᣋᣌᣍᣎᣏᣐᣑᣒᣓᣔᣕᣖᣗᣘᣙᣚᣛᣜᣝᣞᣟᣠᣡᣢᣣᣤᣥᣦᣧᣨᣩᣪᣫᣬᣭᣮᣯᣰᣱᣲᣳᣴᣵ᣶᣷᣸᣹᣺᣻᣼᣽᣾᣿ᦀᦁᦂᦃᦄᦅᦆᦇᦈᦉᦊᦋᦌᦍᦎᦏᦐᦑᦒᦓᦔᦕᦖᦗᦘᦙᦚᦛᦜᦝᦞᦟᦠᦡᦢᦣᦤᦥᦦᦧᦨᦩᦪᦫ᦬᦭᦮᦯ᦰᦱᦲᦳᦴᦵᦶᦷᦸᦹᦺᦻᦼᦽᦾᦿᧀᧁᧂᧃᧄᧅᧆᧇᧈᧉ᧊᧋᧌᧍᧎᧏᧐᧑᧒᧓᧔᧕᧖᧗᧘᧙᧚᧛᧜᧝᧞᧟᧠᧡᧢᧣᧤᧥᧦᧧᧨᧩᧪᧫᧬᧭᧮᧯᧰᧱᧲᧳᧴᧵᧶᧷᧸᧹᧺᧻᧼᧽᧾᧿᪀᪁᪂᪃᪄᪅᪆᪇᪈᪉᪊᪋᪌᪍᪎᪏᪐᪑᪒᪓᪔᪕᪖᪗᪘᪙᪚᪛᪜᪝᪞᪟᪠᪡᪢᪣᪤᪥᪦ᪧ᪨᪩᪪᪫᪬᪭᪮᪯᪵᪶᪷᪸᪹᪺᪽᪰᪱᪲᪳᪴᪻᪼᪾ᪿᫀ᫃᫄᫊᫁᫂᫅᫆᫇᫈᫉᫋ᫌᫍᫎ᫏᫐᫑᫒᫓᫔᫕᫖᫗᫘᫙᫚᫛᫜᫝᫞᫟᫠᫡᫢᫣᫤᫥᫦᫧᫨᫩᫪᫫᫬᫭᫮᫯᫰᫱᫲᫳᫴᫵᫶᫷᫸᫹᫺᫻᫼᫽᫾᫿ᮀᮁᮂᮃᮄᮅᮆᮇᮈᮉᮊᮋᮌᮍᮎᮏᮐᮑᮒᮓᮔᮕᮖᮗᮘᮙᮚᮛᮜᮝᮞᮟᮠᮡᮢᮣᮤᮥᮦᮧᮨᮩ᮪᮫ᮬᮭᮮᮯ᮰᮱᮲᮳᮴᮵᮶᮷᮸᮹ᮺᮻᮼᮽᮾᮿᯀᯁᯂᯃᯄᯅᯆᯇᯈᯉᯊᯋᯌᯍᯎᯏᯐᯑᯒᯓᯔᯕᯖᯗᯘᯙᯚᯛᯜᯝᯞᯟᯠᯡᯢᯣᯤᯥ᯦ᯧᯨᯩᯪᯫᯬᯭᯮᯯᯰᯱ᯲᯳᯴᯵᯶᯷᯸᯹᯺᯻᯼᯽᯾᯿ᲀᲁᲂᲃᲄᲅᲆᲇᲈᲉᲊ᲋᲌᲍᲎᲏ᲐᲑᲒᲓᲔᲕᲖᲗᲘᲙᲚᲛᲜᲝᲞᲟᲠᲡᲢᲣᲤᲥᲦᲧᲨᲩᲪᲫᲬᲭᲮᲯᲰᲱᲲᲳᲴᲵᲶᲷᲸᲹᲺ᲻᲼ᲽᲾᲿ᳀᳁᳂᳃᳄᳅᳆᳇᳈᳉᳊᳋᳌᳍᳎᳏᳐᳑᳒᳓᳔᳕᳖᳗᳘᳙᳜᳝᳞᳟᳚᳛᳠᳡᳢᳣᳤᳥᳦᳧᳨ᳩᳪᳫᳬ᳭ᳮᳯᳰᳱᳲᳳ᳴ᳵᳶ᳷᳸᳹ᳺ᳻᳼᳽᳾᳿ᶀᶁᶂᶃᶄᶅᶆᶇᶈᶉᶊᶋᶌᶍᶎᶏᶐᶑᶒᶓᶔᶕᶖᶗᶘᶙᶚᶛᶜᶝᶞᶟᶠᶡᶢᶣᶤᶥᶦᶧᶨᶩᶪᶫᶬᶭᶮᶯᶰᶱᶲᶳᶴᶵᶶᶷᶸᶹᶺᶻᶼᶽᶾᶿ᷐᷎᷺᷂᷊᷏᷹᷽᷿᷷᷸᷀᷁᷃᷄᷅᷆᷇᷈᷉᷋᷌᷑᷒ᷓᷔᷕᷖᷗᷘᷙᷚᷛᷜᷝᷞᷟᷠᷡᷢᷣᷤᷥᷦᷧᷨᷩᷪᷫᷬᷭᷮᷯᷰᷱᷲᷳᷴ᷵᷻᷾᷶᷼᷍ẀẁẂẃẄẅẆẇẈẉẊẋẌẍẎẏẐẑẒẓẔẕẖẗẘẙẚẛẜẝẞẟẠạẢảẤấẦầẨẩẪẫẬậẮắẰằẲẳẴẵẶặẸẹẺẻẼẽẾếỀềỂểỄễỆệỈỉỊịỌọỎỏỐốỒồỔổỖỗỘộỚớỜờỞởỠỡỢợỤụỦủỨứỪừỬửỮữỰựỲỳỴỵỶỷỸỹỺỻỼỽỾỿᾀᾁᾂᾃᾄᾅᾆᾇᾈᾉᾊᾋᾌᾍᾎᾏᾐᾑᾒᾓᾔᾕᾖᾗᾘᾙᾚᾛᾜᾝᾞᾟᾠᾡᾢᾣᾤᾥᾦᾧᾨᾩᾪᾫᾬᾭᾮᾯᾰᾱᾲᾳᾴ᾵ᾶᾷᾸᾹᾺΆᾼ᾽ι᾿῀῁ῂῃῄ῅ῆῇῈΈῊΉῌ῍῎῏ῐῑῒΐ῔῕ῖῗῘῙῚΊ῜῝῞῟ῠῡῢΰῤῥῦῧῨῩῪΎῬ῭΅`῰῱ῲῳῴ῵ῶῷῸΌῺΏῼ´῾῿₀₁₂₃₄₅₆₇₈₉₊₋₌₍₎₏ₐₑₒₓₔₕₖₗₘₙₚₛₜ₝₞₟₠₡₢₣₤₥₦₧₨₩₪₫€₭₮₯₰₱₲₳₴₵₶₷₸₹₺₻₼₽₾₿⃀⃁⃂⃃⃄⃅⃆⃇⃈⃉⃊⃋⃌⃍⃎⃏⃒⃓⃘⃙⃚⃐⃑⃔⃕⃖⃗⃛⃜⃝⃞⃟⃠⃡⃢⃣⃤⃥⃦⃪⃫⃨⃬⃭⃮⃯⃧⃩⃰⃱⃲⃳⃴⃵⃶⃷⃸⃹⃺⃻⃼⃽⃾⃿ↀↁↂↃↄↅↆↇↈ↉↊↋↌↍↎↏←↑→↓↔↕↖↗↘↙↚↛↜↝↞↟↠↡↢↣↤↥↦↧↨↩↪↫↬↭↮↯↰↱↲↳↴↵↶↷↸↹↺↻↼↽↾↿⇀⇁⇂⇃⇄⇅⇆⇇⇈⇉⇊⇋⇌⇍⇎⇏⇐⇑⇒⇓⇔⇕⇖⇗⇘⇙⇚⇛⇜⇝⇞⇟⇠⇡⇢⇣⇤⇥⇦⇧⇨⇩⇪⇫⇬⇭⇮⇯⇰⇱⇲⇳⇴⇵⇶⇷⇸⇹⇺⇻⇼⇽⇾⇿⊀⊁⊂⊃⊄⊅⊆⊇⊈⊉⊊⊋⊌⊍⊎⊏⊐⊑⊒⊓⊔⊕⊖⊗⊘⊙⊚⊛⊜⊝⊞⊟⊠⊡⊢⊣⊤⊥⊦⊧⊨⊩⊪⊫⊬⊭⊮⊯⊰⊱⊲⊳⊴⊵⊶⊷⊸⊹⊺⊻⊼⊽⊾⊿⋀⋁⋂⋃⋄⋅⋆⋇⋈⋉⋊⋋⋌⋍⋎⋏⋐⋑⋒⋓⋔⋕⋖⋗⋘⋙⋚⋛⋜⋝⋞⋟⋠⋡⋢⋣⋤⋥⋦⋧⋨⋩⋪⋫⋬⋭⋮⋯⋰⋱⋲⋳⋴⋵⋶⋷⋸⋹⋺⋻⋼⋽⋾⋿⎀⎁⎂⎃⎄⎅⎆⎇⎈⎉⎊⎋⎌⎍⎎⎏⎐⎑⎒⎓⎔⎕⎖⎗⎘⎙⎚⎛⎜⎝⎞⎟⎠⎡⎢⎣⎤⎥⎦⎧⎨⎩⎪⎫⎬⎭⎮⎯⎰⎱⎲⎳⎴⎵⎶⎷⎸⎹⎺⎻⎼⎽⎾⎿⏀⏁⏂⏃⏄⏅⏆⏇⏈⏉⏊⏋⏌⏍⏎⏏⏐⏑⏒⏓⏔⏕⏖⏗⏘⏙⏚⏛⏜⏝⏞⏟⏠⏡⏢⏣⏤⏥⏦⏧⏨⏩⏪⏫⏬⏭⏮⏯⏰⏱⏲⏳⏴⏵⏶⏷⏸⏹⏺⏻⏼⏽⏾⏿⒀⒁⒂⒃⒄⒅⒆⒇⒈⒉⒊⒋⒌⒍⒎⒏⒐⒑⒒⒓⒔⒕⒖⒗⒘⒙⒚⒛⒜⒝⒞⒟⒠⒡⒢⒣⒤⒥⒦⒧⒨⒩⒪⒫⒬⒭⒮⒯⒰⒱⒲⒳⒴⒵ⒶⒷⒸⒹⒺⒻⒼⒽⒾⒿⓀⓁⓂⓃⓄⓅⓆⓇⓈⓉⓊⓋⓌⓍⓎⓏⓐⓑⓒⓓⓔⓕⓖⓗⓘⓙⓚⓛⓜⓝⓞⓟⓠⓡⓢⓣⓤⓥⓦⓧⓨⓩ⓪⓫⓬⓭⓮⓯⓰⓱⓲⓳⓴⓵⓶⓷⓸⓹⓺⓻⓼⓽⓾⓿▀▁▂▃▄▅▆▇█▉▊▋▌▍▎▏▐░▒▓▔▕▖▗▘▙▚▛▜▝▞▟■□▢▣▤▥▦▧▨▩▪▫▬▭▮▯▰▱▲△▴▵▶▷▸▹►▻▼▽▾▿◀◁◂◃◄◅◆◇◈◉◊○◌◍◎●◐◑◒◓◔◕◖◗◘◙◚◛◜◝◞◟◠◡◢◣◤◥◦◧◨◩◪◫◬◭◮◯◰◱◲◳◴◵◶◷◸◹◺◻◼◽◾◿⚀⚁⚂⚃⚄⚅⚆⚇⚈⚉⚊⚋⚌⚍⚎⚏⚐⚑⚒⚓⚔⚕⚖⚗⚘⚙⚚⚛⚜⚝⚞⚟⚠⚡⚢⚣⚤⚥⚦⚧⚨⚩⚪⚫⚬⚭⚮⚯⚰⚱⚲⚳⚴⚵⚶⚷⚸⚹⚺⚻⚼⚽⚾⚿⛀⛁⛂⛃⛄⛅⛆⛇⛈⛉⛊⛋⛌⛍⛎⛏⛐⛑⛒⛓⛔⛕⛖⛗⛘⛙⛚⛛⛜⛝⛞⛟⛠⛡⛢⛣⛤⛥⛦⛧⛨⛩⛪⛫⛬⛭⛮⛯⛰⛱⛲⛳⛴⛵⛶⛷⛸⛹⛺⛻⛼⛽⛾⛿➀➁➂➃➄➅➆➇➈➉➊➋➌➍➎➏➐➑➒➓➔➕➖➗➘➙➚➛➜➝➞➟➠➡➢➣➤➥➦➧➨➩➪➫➬➭➮➯➰➱➲➳➴➵➶➷➸➹➺➻➼➽➾➿⟀⟁⟂⟃⟄⟅⟆⟇⟈⟉⟊⟋⟌⟍⟎⟏⟐⟑⟒⟓⟔⟕⟖⟗⟘⟙⟚⟛⟜⟝⟞⟟⟠⟡⟢⟣⟤⟥⟦⟧⟨⟩⟪⟫⟬⟭⟮⟯⟰⟱⟲⟳⟴⟵⟶⟷⟸⟹⟺⟻⟼⟽⟾⟿⢀⢁⢂⢃⢄⢅⢆⢇⢈⢉⢊⢋⢌⢍⢎⢏⢐⢑⢒⢓⢔⢕⢖⢗⢘⢙⢚⢛⢜⢝⢞⢟⢠⢡⢢⢣⢤⢥⢦⢧⢨⢩⢪⢫⢬⢭⢮⢯⢰⢱⢲⢳⢴⢵⢶⢷⢸⢹⢺⢻⢼⢽⢾⢿⣀⣁⣂⣃⣄⣅⣆⣇⣈⣉⣊⣋⣌⣍⣎⣏⣐⣑⣒⣓⣔⣕⣖⣗⣘⣙⣚⣛⣜⣝⣞⣟⣠⣡⣢⣣⣤⣥⣦⣧⣨⣩⣪⣫⣬⣭⣮⣯⣰⣱⣲⣳⣴⣵⣶⣷⣸⣹⣺⣻⣼⣽⣾⣿⦀⦁⦂⦃⦄⦅⦆⦇⦈⦉⦊⦋⦌⦍⦎⦏⦐⦑⦒⦓⦔⦕⦖⦗⦘⦙⦚⦛⦜⦝⦞⦟⦠⦡⦢⦣⦤⦥⦦⦧⦨⦩⦪⦫⦬⦭⦮⦯⦰⦱⦲⦳⦴⦵⦶⦷⦸⦹⦺⦻⦼⦽⦾⦿⧀⧁⧂⧃⧄⧅⧆⧇⧈⧉⧊⧋⧌⧍⧎⧏⧐⧑⧒⧓⧔⧕⧖⧗⧘⧙⧚⧛⧜⧝⧞⧟⧠⧡⧢⧣⧤⧥⧦⧧⧨⧩⧪⧫⧬⧭⧮⧯⧰⧱⧲⧳⧴⧵⧶⧷⧸⧹⧺⧻⧼⧽⧾⧿⪀⪁⪂⪃⪄⪅⪆⪇⪈⪉⪊⪋⪌⪍⪎⪏⪐⪑⪒⪓⪔⪕⪖⪗⪘⪙⪚⪛⪜⪝⪞⪟⪠⪡⪢⪣⪤⪥⪦⪧⪨⪩⪪⪫⪬⪭⪮⪯⪰⪱⪲⪳⪴⪵⪶⪷⪸⪹⪺⪻⪼⪽⪾⪿⫀⫁⫂⫃⫄⫅⫆⫇⫈⫉⫊⫋⫌⫍⫎⫏⫐⫑⫒⫓⫔⫕⫖⫗⫘⫙⫚⫛⫝̸⫝⫞⫟⫠⫡⫢⫣⫤⫥⫦⫧⫨⫩⫪⫫⫬⫭⫮⫯⫰⫱⫲⫳⫴⫵⫶⫷⫸⫹⫺⫻⫼⫽⫾⫿⮀⮁⮂⮃⮄⮅⮆⮇⮈⮉⮊⮋⮌⮍⮎⮏⮐⮑⮒⮓⮔⮕⮖⮗⮘⮙⮚⮛⮜⮝⮞⮟⮠⮡⮢⮣⮤⮥⮦⮧⮨⮩⮪⮫⮬⮭⮮⮯⮰⮱⮲⮳⮴⮵⮶⮷⮸⮹⮺⮻⮼⮽⮾⮿⯀⯁⯂⯃⯄⯅⯆⯇⯈⯉⯊⯋⯌⯍⯎⯏⯐⯑⯒⯓⯔⯕⯖⯗⯘⯙⯚⯛⯜⯝⯞⯟⯠⯡⯢⯣⯤⯥⯦⯧⯨⯩⯪⯫⯬⯭⯮⯯⯰⯱⯲⯳⯴⯵⯶⯷⯸⯹⯺⯻⯼⯽⯾⯿ⲀⲁⲂⲃⲄⲅⲆⲇⲈⲉⲊⲋⲌⲍⲎⲏⲐⲑⲒⲓⲔⲕⲖⲗⲘⲙⲚⲛⲜⲝⲞⲟⲠⲡⲢⲣⲤⲥⲦⲧⲨⲩⲪⲫⲬⲭⲮⲯⲰⲱⲲⲳⲴⲵⲶⲷⲸⲹⲺⲻⲼⲽⲾⲿⳀⳁⳂⳃⳄⳅⳆⳇⳈⳉⳊⳋⳌⳍⳎⳏⳐⳑⳒⳓⳔⳕⳖⳗⳘⳙⳚⳛⳜⳝⳞⳟⳠⳡⳢⳣⳤ⳥⳦⳧⳨⳩⳪ⳫⳬⳭⳮ⳯⳰⳱Ⳳⳳ⳴⳵⳶⳷⳸⳹⳺⳻⳼⳽⳾⳿ⶀⶁⶂⶃⶄⶅⶆⶇⶈⶉⶊⶋⶌⶍⶎⶏⶐⶑⶒⶓⶔⶕⶖ⶗⶘⶙⶚⶛⶜⶝⶞⶟ⶠⶡⶢⶣⶤⶥⶦ⶧ⶨⶩⶪⶫⶬⶭⶮ⶯ⶰⶱⶲⶳⶴⶵⶶ⶷ⶸⶹⶺⶻⶼⶽⶾ⶿ⷀⷁⷂⷃⷄⷅⷆ⷇ⷈⷉⷊⷋⷌⷍⷎ⷏ⷐⷑⷒⷓⷔⷕⷖ⷗ⷘⷙⷚⷛⷜⷝⷞ⷟ⷠⷡⷢⷣⷤⷥⷦⷧⷨⷩⷪⷫⷬⷭⷮⷯⷰⷱⷲⷳⷴⷵⷶⷷⷸⷹⷺⷻⷼⷽⷾⷿ⺀⺁⺂⺃⺄⺅⺆⺇⺈⺉⺊⺋⺌⺍⺎⺏⺐⺑⺒⺓⺔⺕⺖⺗⺘⺙⺚⺛⺜⺝⺞⺟⺠⺡⺢⺣⺤⺥⺦⺧⺨⺩⺪⺫⺬⺭⺮⺯⺰⺱⺲⺳⺴⺵⺶⺷⺸⺹⺺⺻⺼⺽⺾⺿⻀⻁⻂⻃⻄⻅⻆⻇⻈⻉⻊⻋⻌⻍⻎⻏⻐⻑⻒⻓⻔⻕⻖⻗⻘⻙⻚⻛⻜⻝⻞⻟⻠⻡⻢⻣⻤⻥⻦⻧⻨⻩⻪⻫⻬⻭⻮⻯⻰⻱⻲⻳⻴⻵⻶⻷⻸⻹⻺⻻⻼⻽⻾⻿⾀⾁⾂⾃⾄⾅⾆⾇⾈⾉⾊⾋⾌⾍⾎⾏⾐⾑⾒⾓⾔⾕⾖⾗⾘⾙⾚⾛⾜⾝⾞⾟⾠⾡⾢⾣⾤⾥⾦⾧⾨⾩⾪⾫⾬⾭⾮⾯⾰⾱⾲⾳⾴⾵⾶⾷⾸⾹⾺⾻⾼⾽⾾⾿⿀⿁⿂⿃⿄⿅⿆⿇⿈⿉⿊⿋⿌⿍⿎⿏⿐⿑⿒⿓⿔⿕⿖⿗⿘⿙⿚⿛⿜⿝⿞⿟⿠⿡⿢⿣⿤⿥⿦⿧⿨⿩⿪⿫⿬⿭⿮⿯⿰⿱⿲⿳⿴⿵⿶⿷⿸⿹⿺⿻⿼⿽⿾⿿むめもゃやゅゆょよらりるれろゎわゐゑをんゔゕゖ゗゘゙゚゛゜ゝゞゟ゠ァアィイゥウェエォオカガキギクグケゲコゴサザシジスズセゼソゾタダチヂッツヅテデトドナニヌネノハバパヒビピフブプヘベペホボポマミムメモャヤュユョヨラリルレロヮワヰヱヲンヴヵヶヷヸヹヺ・ーヽヾヿㆀㆁㆂㆃㆄㆅㆆㆇㆈㆉㆊㆋㆌㆍㆎ㆏㆐㆑㆒㆓㆔㆕㆖㆗㆘㆙㆚㆛㆜㆝㆞㆟ㆠㆡㆢㆣㆤㆥㆦㆧㆨㆩㆪㆫㆬㆭㆮㆯㆰㆱㆲㆳㆴㆵㆶㆷㆸㆹㆺㆻㆼㆽㆾㆿ㇀㇁㇂㇃㇄㇅㇆㇇㇈㇉㇊㇋㇌㇍㇎㇏㇐㇑㇒㇓㇔㇕㇖㇗㇘㇙㇚㇛㇜㇝㇞㇟㇠㇡㇢㇣㇤㇥㇦㇧㇨㇩㇪㇫㇬㇭㇮㇯ㇰㇱㇲㇳㇴㇵㇶㇷㇸㇹㇺㇻㇼㇽㇾㇿ㊀㊁㊂㊃㊄㊅㊆㊇㊈㊉㊊㊋㊌㊍㊎㊏㊐㊑㊒㊓㊔㊕㊖㊗㊘㊙㊚㊛㊜㊝㊞㊟㊠㊡㊢㊣㊤㊥㊦㊧㊨㊩㊪㊫㊬㊭㊮㊯㊰㊱㊲㊳㊴㊵㊶㊷㊸㊹㊺㊻㊼㊽㊾㊿㋀㋁㋂㋃㋄㋅㋆㋇㋈㋉㋊㋋㋌㋍㋎㋏㋐㋑㋒㋓㋔㋕㋖㋗㋘㋙㋚㋛㋜㋝㋞㋟㋠㋡㋢㋣㋤㋥㋦㋧㋨㋩㋪㋫㋬㋭㋮㋯㋰㋱㋲㋳㋴㋵㋶㋷㋸㋹㋺㋻㋼㋽㋾㋿㎀㎁㎂㎃㎄㎅㎆㎇㎈㎉㎊㎋㎌㎍㎎㎏㎐㎑㎒㎓㎔㎕㎖㎗㎘㎙㎚㎛㎜㎝㎞㎟㎠㎡㎢㎣㎤㎥㎦㎧㎨㎩㎪㎫㎬㎭㎮㎯㎰㎱㎲㎳㎴㎵㎶㎷㎸㎹㎺㎻㎼㎽㎾㎿㏀㏁㏂㏃㏄㏅㏆㏇㏈㏉㏊㏋㏌㏍㏎㏏㏐㏑㏒㏓㏔㏕㏖㏗㏘㏙㏚㏛㏜㏝㏞㏟㏠㏡㏢㏣㏤㏥㏦㏧㏨㏩㏪㏫㏬㏭㏮㏯㏰㏱㏲㏳㏴㏵㏶㏷㏸㏹㏺㏻㏼㏽㏾㏿㒀㒁㒂㒃㒄㒅㒆㒇㒈㒉㒊㒋㒌㒍㒎㒏㒐㒑㒒㒓㒔㒕㒖㒗㒘㒙㒚㒛㒜㒝㒞㒟㒠㒡㒢㒣㒤㒥㒦㒧㒨㒩㒪㒫㒬㒭㒮㒯㒰㒱㒲㒳㒴㒵㒶㒷㒸㒹㒺㒻㒼㒽㒾㒿㓀㓁㓂㓃㓄㓅㓆㓇㓈㓉㓊㓋㓌㓍㓎㓏㓐㓑㓒㓓㓔㓕㓖㓗㓘㓙㓚㓛㓜㓝㓞㓟㓠㓡㓢㓣㓤㓥㓦㓧㓨㓩㓪㓫㓬㓭㓮㓯㓰㓱㓲㓳㓴㓵㓶㓷㓸㓹㓺㓻㓼㓽㓾㓿㖀㖁㖂㖃㖄㖅㖆㖇㖈㖉㖊㖋㖌㖍㖎㖏㖐㖑㖒㖓㖔㖕㖖㖗㖘㖙㖚㖛㖜㖝㖞㖟㖠㖡㖢㖣㖤㖥㖦㖧㖨㖩㖪㖫㖬㖭㖮㖯㖰㖱㖲㖳㖴㖵㖶㖷㖸㖹㖺㖻㖼㖽㖾㖿㗀㗁㗂㗃㗄㗅㗆㗇㗈㗉㗊㗋㗌㗍㗎㗏㗐㗑㗒㗓㗔㗕㗖㗗㗘㗙㗚㗛㗜㗝㗞㗟㗠㗡㗢㗣㗤㗥㗦㗧㗨㗩㗪㗫㗬㗭㗮㗯㗰㗱㗲㗳㗴㗵㗶㗷㗸㗹㗺㗻㗼㗽㗾㗿㚀㚁㚂㚃㚄㚅㚆㚇㚈㚉㚊㚋㚌㚍㚎㚏㚐㚑㚒㚓㚔㚕㚖㚗㚘㚙㚚㚛㚜㚝㚞㚟㚠㚡㚢㚣㚤㚥㚦㚧㚨㚩㚪㚫㚬㚭㚮㚯㚰㚱㚲㚳㚴㚵㚶㚷㚸㚹㚺㚻㚼㚽㚾㚿㛀㛁㛂㛃㛄㛅㛆㛇㛈㛉㛊㛋㛌㛍㛎㛏㛐㛑㛒㛓㛔㛕㛖㛗㛘㛙㛚㛛㛜㛝㛞㛟㛠㛡㛢㛣㛤㛥㛦㛧㛨㛩㛪㛫㛬㛭㛮㛯㛰㛱㛲㛳㛴㛵㛶㛷㛸㛹㛺㛻㛼㛽㛾㛿㞀㞁㞂㞃㞄㞅㞆㞇㞈㞉㞊㞋㞌㞍㞎㞏㞐㞑㞒㞓㞔㞕㞖㞗㞘㞙㞚㞛㞜㞝㞞㞟㞠㞡㞢㞣㞤㞥㞦㞧㞨㞩㞪㞫㞬㞭㞮㞯㞰㞱㞲㞳㞴㞵㞶㞷㞸㞹㞺㞻㞼㞽㞾㞿㟀㟁㟂㟃㟄㟅㟆㟇㟈㟉㟊㟋㟌㟍㟎㟏㟐㟑㟒㟓㟔㟕㟖㟗㟘㟙㟚㟛㟜㟝㟞㟟㟠㟡㟢㟣㟤㟥㟦㟧㟨㟩㟪㟫㟬㟭㟮㟯㟰㟱㟲㟳㟴㟵㟶㟷㟸㟹㟺㟻㟼㟽㟾㟿㢀㢁㢂㢃㢄㢅㢆㢇㢈㢉㢊㢋㢌㢍㢎㢏㢐㢑㢒㢓㢔㢕㢖㢗㢘㢙㢚㢛㢜㢝㢞㢟㢠㢡㢢㢣㢤㢥㢦㢧㢨㢩㢪㢫㢬㢭㢮㢯㢰㢱㢲㢳㢴㢵㢶㢷㢸㢹㢺㢻㢼㢽㢾㢿㣀㣁㣂㣃㣄㣅㣆㣇㣈㣉㣊㣋㣌㣍㣎㣏㣐㣑㣒㣓㣔㣕㣖㣗㣘㣙㣚㣛㣜㣝㣞㣟㣠㣡㣢㣣㣤㣥㣦㣧㣨㣩㣪㣫㣬㣭㣮㣯㣰㣱㣲㣳㣴㣵㣶㣷㣸㣹㣺㣻㣼㣽㣾㣿㦀㦁㦂㦃㦄㦅㦆㦇㦈㦉㦊㦋㦌㦍㦎㦏㦐㦑㦒㦓㦔㦕㦖㦗㦘㦙㦚㦛㦜㦝㦞㦟㦠㦡㦢㦣㦤㦥㦦㦧㦨㦩㦪㦫㦬㦭㦮㦯㦰㦱㦲㦳㦴㦵㦶㦷㦸㦹㦺㦻㦼㦽㦾㦿㧀㧁㧂㧃㧄㧅㧆㧇㧈㧉㧊㧋㧌㧍㧎㧏㧐㧑㧒㧓㧔㧕㧖㧗㧘㧙㧚㧛㧜㧝㧞㧟㧠㧡㧢㧣㧤㧥㧦㧧㧨㧩㧪㧫㧬㧭㧮㧯㧰㧱㧲㧳㧴㧵㧶㧷㧸㧹㧺㧻㧼㧽㧾㧿㪀㪁㪂㪃㪄㪅㪆㪇㪈㪉㪊㪋㪌㪍㪎㪏㪐㪑㪒㪓㪔㪕㪖㪗㪘㪙㪚㪛㪜㪝㪞㪟㪠㪡㪢㪣㪤㪥㪦㪧㪨㪩㪪㪫㪬㪭㪮㪯㪰㪱㪲㪳㪴㪵㪶㪷㪸㪹㪺㪻㪼㪽㪾㪿㫀㫁㫂㫃㫄㫅㫆㫇㫈㫉㫊㫋㫌㫍㫎㫏㫐㫑㫒㫓㫔㫕㫖㫗㫘㫙㫚㫛㫜㫝㫞㫟㫠㫡㫢㫣㫤㫥㫦㫧㫨㫩㫪㫫㫬㫭㫮㫯㫰㫱㫲㫳㫴㫵㫶㫷㫸㫹㫺㫻㫼㫽㫾㫿㮀㮁㮂㮃㮄㮅㮆㮇㮈㮉㮊㮋㮌㮍㮎㮏㮐㮑㮒㮓㮔㮕㮖㮗㮘㮙㮚㮛㮜㮝㮞㮟㮠㮡㮢㮣㮤㮥㮦㮧㮨㮩㮪㮫㮬㮭㮮㮯㮰㮱㮲㮳㮴㮵㮶㮷㮸㮹㮺㮻㮼㮽㮾㮿㯀㯁㯂㯃㯄㯅㯆㯇㯈㯉㯊㯋㯌㯍㯎㯏㯐㯑㯒㯓㯔㯕㯖㯗㯘㯙㯚㯛㯜㯝㯞㯟㯠㯡㯢㯣㯤㯥㯦㯧㯨㯩㯪㯫㯬㯭㯮㯯㯰㯱㯲㯳㯴㯵㯶㯷㯸㯹㯺㯻㯼㯽㯾㯿㲀㲁㲂㲃㲄㲅㲆㲇㲈㲉㲊㲋㲌㲍㲎㲏㲐㲑㲒㲓㲔㲕㲖㲗㲘㲙㲚㲛㲜㲝㲞㲟㲠㲡㲢㲣㲤㲥㲦㲧㲨㲩㲪㲫㲬㲭㲮㲯㲰㲱㲲㲳㲴㲵㲶㲷㲸㲹㲺㲻㲼㲽㲾㲿㳀㳁㳂㳃㳄㳅㳆㳇㳈㳉㳊㳋㳌㳍㳎㳏㳐㳑㳒㳓㳔㳕㳖㳗㳘㳙㳚㳛㳜㳝㳞㳟㳠㳡㳢㳣㳤㳥㳦㳧㳨㳩㳪㳫㳬㳭㳮㳯㳰㳱㳲㳳㳴㳵㳶㳷㳸㳹㳺㳻㳼㳽㳾㳿㶀㶁㶂㶃㶄㶅㶆㶇㶈㶉㶊㶋㶌㶍㶎㶏㶐㶑㶒㶓㶔㶕㶖㶗㶘㶙㶚㶛㶜㶝㶞㶟㶠㶡㶢㶣㶤㶥㶦㶧㶨㶩㶪㶫㶬㶭㶮㶯㶰㶱㶲㶳㶴㶵㶶㶷㶸㶹㶺㶻㶼㶽㶾㶿㷀㷁㷂㷃㷄㷅㷆㷇㷈㷉㷊㷋㷌㷍㷎㷏㷐㷑㷒㷓㷔㷕㷖㷗㷘㷙㷚㷛㷜㷝㷞㷟㷠㷡㷢㷣㷤㷥㷦㷧㷨㷩㷪㷫㷬㷭㷮㷯㷰㷱㷲㷳㷴㷵㷶㷷㷸㷹㷺㷻㷼㷽㷾㷿㺀㺁㺂㺃㺄㺅㺆㺇㺈㺉㺊㺋㺌㺍㺎㺏㺐㺑㺒㺓㺔㺕㺖㺗㺘㺙㺚㺛㺜㺝㺞㺟㺠㺡㺢㺣㺤㺥㺦㺧㺨㺩㺪㺫㺬㺭㺮㺯㺰㺱㺲㺳㺴㺵㺶㺷㺸㺹㺺㺻㺼㺽㺾㺿㻀㻁㻂㻃㻄㻅㻆㻇㻈㻉㻊㻋㻌㻍㻎㻏㻐㻑㻒㻓㻔㻕㻖㻗㻘㻙㻚㻛㻜㻝㻞㻟㻠㻡㻢㻣㻤㻥㻦㻧㻨㻩㻪㻫㻬㻭㻮㻯㻰㻱㻲㻳㻴㻵㻶㻷㻸㻹㻺㻻㻼㻽㻾㻿㾀㾁㾂㾃㾄㾅㾆㾇㾈㾉㾊㾋㾌㾍㾎㾏㾐㾑㾒㾓㾔㾕㾖㾗㾘㾙㾚㾛㾜㾝㾞㾟㾠㾡㾢㾣㾤㾥㾦㾧㾨㾩㾪㾫㾬㾭㾮㾯㾰㾱㾲㾳㾴㾵㾶㾷㾸㾹㾺㾻㾼㾽㾾㾿㿀㿁㿂㿃㿄㿅㿆㿇㿈㿉㿊㿋㿌㿍㿎㿏㿐㿑㿒㿓㿔㿕㿖㿗㿘㿙㿚㿛㿜㿝㿞㿟㿠㿡㿢㿣㿤㿥㿦㿧㿨㿩㿪㿫㿬㿭㿮㿯㿰㿱㿲㿳㿴㿵㿶㿷㿸㿹㿺㿻㿼㿽㿾㿿䂀䂁䂂䂃䂄䂅䂆䂇䂈䂉䂊䂋䂌䂍䂎䂏䂐䂑䂒䂓䂔䂕䂖䂗䂘䂙䂚䂛䂜䂝䂞䂟䂠䂡䂢䂣䂤䂥䂦䂧䂨䂩䂪䂫䂬䂭䂮䂯䂰䂱䂲䂳䂴䂵䂶䂷䂸䂹䂺䂻䂼䂽䂾䂿䃀䃁䃂䃃䃄䃅䃆䃇䃈䃉䃊䃋䃌䃍䃎䃏䃐䃑䃒䃓䃔䃕䃖䃗䃘䃙䃚䃛䃜䃝䃞䃟䃠䃡䃢䃣䃤䃥䃦䃧䃨䃩䃪䃫䃬䃭䃮䃯䃰䃱䃲䃳䃴䃵䃶䃷䃸䃹䃺䃻䃼䃽䃾䃿䆀䆁䆂䆃䆄䆅䆆䆇䆈䆉䆊䆋䆌䆍䆎䆏䆐䆑䆒䆓䆔䆕䆖䆗䆘䆙䆚䆛䆜䆝䆞䆟䆠䆡䆢䆣䆤䆥䆦䆧䆨䆩䆪䆫䆬䆭䆮䆯䆰䆱䆲䆳䆴䆵䆶䆷䆸䆹䆺䆻䆼䆽䆾䆿䇀䇁䇂䇃䇄䇅䇆䇇䇈䇉䇊䇋䇌䇍䇎䇏䇐䇑䇒䇓䇔䇕䇖䇗䇘䇙䇚䇛䇜䇝䇞䇟䇠䇡䇢䇣䇤䇥䇦䇧䇨䇩䇪䇫䇬䇭䇮䇯䇰䇱䇲䇳䇴䇵䇶䇷䇸䇹䇺䇻䇼䇽䇾䇿䊀䊁䊂䊃䊄䊅䊆䊇䊈䊉䊊䊋䊌䊍䊎䊏䊐䊑䊒䊓䊔䊕䊖䊗䊘䊙䊚䊛䊜䊝䊞䊟䊠䊡䊢䊣䊤䊥䊦䊧䊨䊩䊪䊫䊬䊭䊮䊯䊰䊱䊲䊳䊴䊵䊶䊷䊸䊹䊺䊻䊼䊽䊾䊿䋀䋁䋂䋃䋄䋅䋆䋇䋈䋉䋊䋋䋌䋍䋎䋏䋐䋑䋒䋓䋔䋕䋖䋗䋘䋙䋚䋛䋜䋝䋞䋟䋠䋡䋢䋣䋤䋥䋦䋧䋨䋩䋪䋫䋬䋭䋮䋯䋰䋱䋲䋳䋴䋵䋶䋷䋸䋹䋺䋻䋼䋽䋾䋿䎀䎁䎂䎃䎄䎅䎆䎇䎈䎉䎊䎋䎌䎍䎎䎏䎐䎑䎒䎓䎔䎕䎖䎗䎘䎙䎚䎛䎜䎝䎞䎟䎠䎡䎢䎣䎤䎥䎦䎧䎨䎩䎪䎫䎬䎭䎮䎯䎰䎱䎲䎳䎴䎵䎶䎷䎸䎹䎺䎻䎼䎽䎾䎿䏀䏁䏂䏃䏄䏅䏆䏇䏈䏉䏊䏋䏌䏍䏎䏏䏐䏑䏒䏓䏔䏕䏖䏗䏘䏙䏚䏛䏜䏝䏞䏟䏠䏡䏢䏣䏤䏥䏦䏧䏨䏩䏪䏫䏬䏭䏮䏯䏰䏱䏲䏳䏴䏵䏶䏷䏸䏹䏺䏻䏼䏽䏾䏿䒀䒁䒂䒃䒄䒅䒆䒇䒈䒉䒊䒋䒌䒍䒎䒏䒐䒑䒒䒓䒔䒕䒖䒗䒘䒙䒚䒛䒜䒝䒞䒟䒠䒡䒢䒣䒤䒥䒦䒧䒨䒩䒪䒫䒬䒭䒮䒯䒰䒱䒲䒳䒴䒵䒶䒷䒸䒹䒺䒻䒼䒽䒾䒿䓀䓁䓂䓃䓄䓅䓆䓇䓈䓉䓊䓋䓌䓍䓎䓏䓐䓑䓒䓓䓔䓕䓖䓗䓘䓙䓚䓛䓜䓝䓞䓟䓠䓡䓢䓣䓤䓥䓦䓧䓨䓩䓪䓫䓬䓭䓮䓯䓰䓱䓲䓳䓴䓵䓶䓷䓸䓹䓺䓻䓼䓽䓾䓿䖀䖁䖂䖃䖄䖅䖆䖇䖈䖉䖊䖋䖌䖍䖎䖏䖐䖑䖒䖓䖔䖕䖖䖗䖘䖙䖚䖛䖜䖝䖞䖟䖠䖡䖢䖣䖤䖥䖦䖧䖨䖩䖪䖫䖬䖭䖮䖯䖰䖱䖲䖳䖴䖵䖶䖷䖸䖹䖺䖻䖼䖽䖾䖿䗀䗁䗂䗃䗄䗅䗆䗇䗈䗉䗊䗋䗌䗍䗎䗏䗐䗑䗒䗓䗔䗕䗖䗗䗘䗙䗚䗛䗜䗝䗞䗟䗠䗡䗢䗣䗤䗥䗦䗧䗨䗩䗪䗫䗬䗭䗮䗯䗰䗱䗲䗳䗴䗵䗶䗷䗸䗹䗺䗻䗼䗽䗾䗿䚀䚁䚂䚃䚄䚅䚆䚇䚈䚉䚊䚋䚌䚍䚎䚏䚐䚑䚒䚓䚔䚕䚖䚗䚘䚙䚚䚛䚜䚝䚞䚟䚠䚡䚢䚣䚤䚥䚦䚧䚨䚩䚪䚫䚬䚭䚮䚯䚰䚱䚲䚳䚴䚵䚶䚷䚸䚹䚺䚻䚼䚽䚾䚿䛀䛁䛂䛃䛄䛅䛆䛇䛈䛉䛊䛋䛌䛍䛎䛏䛐䛑䛒䛓䛔䛕䛖䛗䛘䛙䛚䛛䛜䛝䛞䛟䛠䛡䛢䛣䛤䛥䛦䛧䛨䛩䛪䛫䛬䛭䛮䛯䛰䛱䛲䛳䛴䛵䛶䛷䛸䛹䛺䛻䛼䛽䛾䛿䞀䞁䞂䞃䞄䞅䞆䞇䞈䞉䞊䞋䞌䞍䞎䞏䞐䞑䞒䞓䞔䞕䞖䞗䞘䞙䞚䞛䞜䞝䞞䞟䞠䞡䞢䞣䞤䞥䞦䞧䞨䞩䞪䞫䞬䞭䞮䞯䞰䞱䞲䞳䞴䞵䞶䞷䞸䞹䞺䞻䞼䞽䞾䞿䟀䟁䟂䟃䟄䟅䟆䟇䟈䟉䟊䟋䟌䟍䟎䟏䟐䟑䟒䟓䟔䟕䟖䟗䟘䟙䟚䟛䟜䟝䟞䟟䟠䟡䟢䟣䟤䟥䟦䟧䟨䟩䟪䟫䟬䟭䟮䟯䟰䟱䟲䟳䟴䟵䟶䟷䟸䟹䟺䟻䟼䟽䟾䟿䢀䢁䢂䢃䢄䢅䢆䢇䢈䢉䢊䢋䢌䢍䢎䢏䢐䢑䢒䢓䢔䢕䢖䢗䢘䢙䢚䢛䢜䢝䢞䢟䢠䢡䢢䢣䢤䢥䢦䢧䢨䢩䢪䢫䢬䢭䢮䢯䢰䢱䢲䢳䢴䢵䢶䢷䢸䢹䢺䢻䢼䢽䢾䢿䣀䣁䣂䣃䣄䣅䣆䣇䣈䣉䣊䣋䣌䣍䣎䣏䣐䣑䣒䣓䣔䣕䣖䣗䣘䣙䣚䣛䣜䣝䣞䣟䣠䣡䣢䣣䣤䣥䣦䣧䣨䣩䣪䣫䣬䣭䣮䣯䣰䣱䣲䣳䣴䣵䣶䣷䣸䣹䣺䣻䣼䣽䣾䣿䦀䦁䦂䦃䦄䦅䦆䦇䦈䦉䦊䦋䦌䦍䦎䦏䦐䦑䦒䦓䦔䦕䦖䦗䦘䦙䦚䦛䦜䦝䦞䦟䦠䦡䦢䦣䦤䦥䦦䦧䦨䦩䦪䦫䦬䦭䦮䦯䦰䦱䦲䦳䦴䦵䦶䦷䦸䦹䦺䦻䦼䦽䦾䦿䧀䧁䧂䧃䧄䧅䧆䧇䧈䧉䧊䧋䧌䧍䧎䧏䧐䧑䧒䧓䧔䧕䧖䧗䧘䧙䧚䧛䧜䧝䧞䧟䧠䧡䧢䧣䧤䧥䧦䧧䧨䧩䧪䧫䧬䧭䧮䧯䧰䧱䧲䧳䧴䧵䧶䧷䧸䧹䧺䧻䧼䧽䧾䧿䪀䪁䪂䪃䪄䪅䪆䪇䪈䪉䪊䪋䪌䪍䪎䪏䪐䪑䪒䪓䪔䪕䪖䪗䪘䪙䪚䪛䪜䪝䪞䪟䪠䪡䪢䪣䪤䪥䪦䪧䪨䪩䪪䪫䪬䪭䪮䪯䪰䪱䪲䪳䪴䪵䪶䪷䪸䪹䪺䪻䪼䪽䪾䪿䫀䫁䫂䫃䫄䫅䫆䫇䫈䫉䫊䫋䫌䫍䫎䫏䫐䫑䫒䫓䫔䫕䫖䫗䫘䫙䫚䫛䫜䫝䫞䫟䫠䫡䫢䫣䫤䫥䫦䫧䫨䫩䫪䫫䫬䫭䫮䫯䫰䫱䫲䫳䫴䫵䫶䫷䫸䫹䫺䫻䫼䫽䫾䫿䮀䮁䮂䮃䮄䮅䮆䮇䮈䮉䮊䮋䮌䮍䮎䮏䮐䮑䮒䮓䮔䮕䮖䮗䮘䮙䮚䮛䮜䮝䮞䮟䮠䮡䮢䮣䮤䮥䮦䮧䮨䮩䮪䮫䮬䮭䮮䮯䮰䮱䮲䮳䮴䮵䮶䮷䮸䮹䮺䮻䮼䮽䮾䮿䯀䯁䯂䯃䯄䯅䯆䯇䯈䯉䯊䯋䯌䯍䯎䯏䯐䯑䯒䯓䯔䯕䯖䯗䯘䯙䯚䯛䯜䯝䯞䯟䯠䯡䯢䯣䯤䯥䯦䯧䯨䯩䯪䯫䯬䯭䯮䯯䯰䯱䯲䯳䯴䯵䯶䯷䯸䯹䯺䯻䯼䯽䯾䯿䲀䲁䲂䲃䲄䲅䲆䲇䲈䲉䲊䲋䲌䲍䲎䲏䲐䲑䲒䲓䲔䲕䲖䲗䲘䲙䲚䲛䲜䲝䲞䲟䲠䲡䲢䲣䲤䲥䲦䲧䲨䲩䲪䲫䲬䲭䲮䲯䲰䲱䲲䲳䲴䲵䲶䲷䲸䲹䲺䲻䲼䲽䲾䲿䳀䳁䳂䳃䳄䳅䳆䳇䳈䳉䳊䳋䳌䳍䳎䳏䳐䳑䳒䳓䳔䳕䳖䳗䳘䳙䳚䳛䳜䳝䳞䳟䳠䳡䳢䳣䳤䳥䳦䳧䳨䳩䳪䳫䳬䳭䳮䳯䳰䳱䳲䳳䳴䳵䳶䳷䳸䳹䳺䳻䳼䳽䳾䳿䶀䶁䶂䶃䶄䶅䶆䶇䶈䶉䶊䶋䶌䶍䶎䶏䶐䶑䶒䶓䶔䶕䶖䶗䶘䶙䶚䶛䶜䶝䶞䶟䶠䶡䶢䶣䶤䶥䶦䶧䶨䶩䶪䶫䶬䶭䶮䶯䶰䶱䶲䶳䶴䶵䶶䶷䶸䶹䶺䶻䶼䶽䶾䶿䷀䷁䷂䷃䷄䷅䷆䷇䷈䷉䷊䷋䷌䷍䷎䷏䷐䷑䷒䷓䷔䷕䷖䷗䷘䷙䷚䷛䷜䷝䷞䷟䷠䷡䷢䷣䷤䷥䷦䷧䷨䷩䷪䷫䷬䷭䷮䷯䷰䷱䷲䷳䷴䷵䷶䷷䷸䷹䷺䷻䷼䷽䷾䷿亀亁亂亃亄亅了亇予争亊事二亍于亏亐云互亓五井亖亗亘亙亚些亜亝亞亟亠亡亢亣交亥亦产亨亩亪享京亭亮亯亰亱亲亳亴亵亶亷亸亹人亻亼亽亾亿什仁仂仃仄仅仆仇仈仉今介仌仍从仏仐仑仒仓仔仕他仗付仙仚仛仜仝仞仟仠仡仢代令以仦仧仨仩仪仫们仭仮仯仰仱仲仳仴仵件价仸仹仺任仼份仾仿侀侁侂侃侄侅來侇侈侉侊例侌侍侎侏侐侑侒侓侔侕侖侗侘侙侚供侜依侞侟侠価侢侣侤侥侦侧侨侩侪侫侬侭侮侯侰侱侲侳侴侵侶侷侸侹侺侻侼侽侾便俀俁係促俄俅俆俇俈俉俊俋俌俍俎俏俐俑俒俓俔俕俖俗俘俙俚俛俜保俞俟俠信俢俣俤俥俦俧俨俩俪俫俬俭修俯俰俱俲俳俴俵俶俷俸俹俺俻俼俽俾俿傀傁傂傃傄傅傆傇傈傉傊傋傌傍傎傏傐傑傒傓傔傕傖傗傘備傚傛傜傝傞傟傠傡傢傣傤傥傦傧储傩傪傫催傭傮傯傰傱傲傳傴債傶傷傸傹傺傻傼傽傾傿僀僁僂僃僄僅僆僇僈僉僊僋僌働僎像僐僑僒僓僔僕僖僗僘僙僚僛僜僝僞僟僠僡僢僣僤僥僦僧僨僩僪僫僬僭僮僯僰僱僲僳僴僵僶僷僸價僺僻僼僽僾僿冀冁冂冃冄内円冇冈冉冊冋册再冎冏冐冑冒冓冔冕冖冗冘写冚军农冝冞冟冠冡冢冣冤冥冦冧冨冩冪冫冬冭冮冯冰冱冲决冴况冶冷冸冹冺冻冼冽冾冿净凁凂凃凄凅准凇凈凉凊凋凌凍凎减凐凑凒凓凔凕凖凗凘凙凚凛凜凝凞凟几凡凢凣凤凥処凧凨凩凪凫凬凭凮凯凰凱凲凳凴凵凶凷凸凹出击凼函凾凿劀劁劂劃劄劅劆劇劈劉劊劋劌劍劎劏劐劑劒劓劔劕劖劗劘劙劚力劜劝办功加务劢劣劤劥劦劧动助努劫劬劭劮劯劰励劲劳労劵劶劷劸効劺劻劼劽劾势勀勁勂勃勄勅勆勇勈勉勊勋勌勍勎勏勐勑勒勓勔動勖勗勘務勚勛勜勝勞募勠勡勢勣勤勥勦勧勨勩勪勫勬勭勮勯勰勱勲勳勴勵勶勷勸勹勺勻勼勽勾勿厀厁厂厃厄厅历厇厈厉厊压厌厍厎厏厐厑厒厓厔厕厖厗厘厙厚厛厜厝厞原厠厡厢厣厤厥厦厧厨厩厪厫厬厭厮厯厰厱厲厳厴厵厶厷厸厹厺去厼厽厾县叀叁参參叄叅叆叇又叉及友双反収叏叐发叒叓叔叕取受变叙叚叛叜叝叞叟叠叡叢口古句另叧叨叩只叫召叭叮可台叱史右叴叵叶号司叹叺叻叼叽叾叿咀咁咂咃咄咅咆咇咈咉咊咋和咍咎咏咐咑咒咓咔咕咖咗咘咙咚咛咜咝咞咟咠咡咢咣咤咥咦咧咨咩咪咫咬咭咮咯咰咱咲咳咴咵咶咷咸咹咺咻咼咽咾咿哀品哂哃哄哅哆哇哈哉哊哋哌响哎哏哐哑哒哓哔哕哖哗哘哙哚哛哜哝哞哟哠員哢哣哤哥哦哧哨哩哪哫哬哭哮哯哰哱哲哳哴哵哶哷哸哹哺哻哼哽哾哿喀喁喂喃善喅喆喇喈喉喊喋喌喍喎喏喐喑喒喓喔喕喖喗喘喙喚喛喜喝喞喟喠喡喢喣喤喥喦喧喨喩喪喫喬喭單喯喰喱喲喳喴喵営喷喸喹喺喻喼喽喾喿嗀嗁嗂嗃嗄嗅嗆嗇嗈嗉嗊嗋嗌嗍嗎嗏嗐嗑嗒嗓嗔嗕嗖嗗嗘嗙嗚嗛嗜嗝嗞嗟嗠嗡嗢嗣嗤嗥嗦嗧嗨嗩嗪嗫嗬嗭嗮嗯嗰嗱嗲嗳嗴嗵嗶嗷嗸嗹嗺嗻嗼嗽嗾嗿嚀嚁嚂嚃嚄嚅嚆嚇嚈嚉嚊嚋嚌嚍嚎嚏嚐嚑嚒嚓嚔嚕嚖嚗嚘嚙嚚嚛嚜嚝嚞嚟嚠嚡嚢嚣嚤嚥嚦嚧嚨嚩嚪嚫嚬嚭嚮嚯嚰嚱嚲嚳嚴嚵嚶嚷嚸嚹嚺嚻嚼嚽嚾嚿囀囁囂囃囄囅囆囇囈囉囊囋囌囍囎囏囐囑囒囓囔囕囖囗囘囙囚四囜囝回囟因囡团団囤囥囦囧囨囩囪囫囬园囮囯困囱囲図围囵囶囷囸囹固囻囼国图囿垀垁垂垃垄垅垆垇垈垉垊型垌垍垎垏垐垑垒垓垔垕垖垗垘垙垚垛垜垝垞垟垠垡垢垣垤垥垦垧垨垩垪垫垬垭垮垯垰垱垲垳垴垵垶垷垸垹垺垻垼垽垾垿埀埁埂埃埄埅埆埇埈埉埊埋埌埍城埏埐埑埒埓埔埕埖埗埘埙埚埛埜埝埞域埠埡埢埣埤埥埦埧埨埩埪埫埬埭埮埯埰埱埲埳埴埵埶執埸培基埻埼埽埾埿墀墁墂境墄墅墆墇墈墉墊墋墌墍墎墏墐墑墒墓墔墕墖増墘墙墚墛墜墝增墟墠墡墢墣墤墥墦墧墨墩墪墫墬墭墮墯墰墱墲墳墴墵墶墷墸墹墺墻墼墽墾墿壀壁壂壃壄壅壆壇壈壉壊壋壌壍壎壏壐壑壒壓壔壕壖壗壘壙壚壛壜壝壞壟壠壡壢壣壤壥壦壧壨壩壪士壬壭壮壯声壱売壳壴壵壶壷壸壹壺壻壼壽壾壿妀妁如妃妄妅妆妇妈妉妊妋妌妍妎妏妐妑妒妓妔妕妖妗妘妙妚妛妜妝妞妟妠妡妢妣妤妥妦妧妨妩妪妫妬妭妮妯妰妱妲妳妴妵妶妷妸妹妺妻妼妽妾妿姀姁姂姃姄姅姆姇姈姉姊始姌姍姎姏姐姑姒姓委姕姖姗姘姙姚姛姜姝姞姟姠姡姢姣姤姥姦姧姨姩姪姫姬姭姮姯姰姱姲姳姴姵姶姷姸姹姺姻姼姽姾姿媀媁媂媃媄媅媆媇媈媉媊媋媌媍媎媏媐媑媒媓媔媕媖媗媘媙媚媛媜媝媞媟媠媡媢媣媤媥媦媧媨媩媪媫媬媭媮媯媰媱媲媳媴媵媶媷媸媹媺媻媼媽媾媿嫀嫁嫂嫃嫄嫅嫆嫇嫈嫉嫊嫋嫌嫍嫎嫏嫐嫑嫒嫓嫔嫕嫖嫗嫘嫙嫚嫛嫜嫝嫞嫟嫠嫡嫢嫣嫤嫥嫦嫧嫨嫩嫪嫫嫬嫭嫮嫯嫰嫱嫲嫳嫴嫵嫶嫷嫸嫹嫺嫻嫼嫽嫾嫿宀宁宂它宄宅宆宇守安宊宋完宍宎宏宐宑宒宓宔宕宖宗官宙定宛宜宝实実宠审客宣室宥宦宧宨宩宪宫宬宭宮宯宰宱宲害宴宵家宷宸容宺宻宼宽宾宿寀寁寂寃寄寅密寇寈寉寊寋富寍寎寏寐寑寒寓寔寕寖寗寘寙寚寛寜寝寞察寠寡寢寣寤寥實寧寨審寪寫寬寭寮寯寰寱寲寳寴寵寶寷寸对寺寻导寽対寿岀岁岂岃岄岅岆岇岈岉岊岋岌岍岎岏岐岑岒岓岔岕岖岗岘岙岚岛岜岝岞岟岠岡岢岣岤岥岦岧岨岩岪岫岬岭岮岯岰岱岲岳岴岵岶岷岸岹岺岻岼岽岾岿峀峁峂峃峄峅峆峇峈峉峊峋峌峍峎峏峐峑峒峓峔峕峖峗峘峙峚峛峜峝峞峟峠峡峢峣峤峥峦峧峨峩峪峫峬峭峮峯峰峱峲峳峴峵島峷峸峹峺峻峼峽峾峿嶀嶁嶂嶃嶄嶅嶆嶇嶈嶉嶊嶋嶌嶍嶎嶏嶐嶑嶒嶓嶔嶕嶖嶗嶘嶙嶚嶛嶜嶝嶞嶟嶠嶡嶢嶣嶤嶥嶦嶧嶨嶩嶪嶫嶬嶭嶮嶯嶰嶱嶲嶳嶴嶵嶶嶷嶸嶹嶺嶻嶼嶽嶾嶿巀巁巂巃巄巅巆巇巈巉巊巋巌巍巎巏巐巑巒巓巔巕巖巗巘巙巚巛巜川州巟巠巡巢巣巤工左巧巨巩巪巫巬巭差巯巰己已巳巴巵巶巷巸巹巺巻巼巽巾巿庀庁庂広庄庅庆庇庈庉床庋庌庍庎序庐庑庒库应底庖店庘庙庚庛府庝庞废庠庡庢庣庤庥度座庨庩庪庫庬庭庮庯庰庱庲庳庴庵庶康庸庹庺庻庼庽庾庿廀廁廂廃廄廅廆廇廈廉廊廋廌廍廎廏廐廑廒廓廔廕廖廗廘廙廚廛廜廝廞廟廠廡廢廣廤廥廦廧廨廩廪廫廬廭廮廯廰廱廲廳廴廵延廷廸廹建廻廼廽廾廿往征徂徃径待徆徇很徉徊律後徍徎徏徐徑徒従徔徕徖得徘徙徚徛徜徝從徟徠御徢徣徤徥徦徧徨復循徫徬徭微徯徰徱徲徳徴徵徶德徸徹徺徻徼徽徾徿忀忁忂心忄必忆忇忈忉忊忋忌忍忎忏忐忑忒忓忔忕忖志忘忙忚忛応忝忞忟忠忡忢忣忤忥忦忧忨忩忪快忬忭忮忯忰忱忲忳忴念忶忷忸忹忺忻忼忽忾忿悀悁悂悃悄悅悆悇悈悉悊悋悌悍悎悏悐悑悒悓悔悕悖悗悘悙悚悛悜悝悞悟悠悡悢患悤悥悦悧您悩悪悫悬悭悮悯悰悱悲悳悴悵悶悷悸悹悺悻悼悽悾悿惀惁惂惃惄情惆惇惈惉惊惋惌惍惎惏惐惑惒惓惔惕惖惗惘惙惚惛惜惝惞惟惠惡惢惣惤惥惦惧惨惩惪惫惬惭惮惯惰惱惲想惴惵惶惷惸惹惺惻惼惽惾惿憀憁憂憃憄憅憆憇憈憉憊憋憌憍憎憏憐憑憒憓憔憕憖憗憘憙憚憛憜憝憞憟憠憡憢憣憤憥憦憧憨憩憪憫憬憭憮憯憰憱憲憳憴憵憶憷憸憹憺憻憼憽憾憿懀懁懂懃懄懅懆懇懈應懊懋懌懍懎懏懐懑懒懓懔懕懖懗懘懙懚懛懜懝懞懟懠懡懢懣懤懥懦懧懨懩懪懫懬懭懮懯懰懱懲懳懴懵懶懷懸懹懺懻懼懽懾懿技抁抂抃抄抅抆抇抈抉把抋抌抍抎抏抐抑抒抓抔投抖抗折抙抚抛抜抝択抟抠抡抢抣护报抦抧抨抩抪披抬抭抮抯抰抱抲抳抴抵抶抷抸抹抺抻押抽抾抿拀拁拂拃拄担拆拇拈拉拊拋拌拍拎拏拐拑拒拓拔拕拖拗拘拙拚招拜拝拞拟拠拡拢拣拤拥拦拧拨择拪拫括拭拮拯拰拱拲拳拴拵拶拷拸拹拺拻拼拽拾拿掀掁掂掃掄掅掆掇授掉掊掋掌掍掎掏掐掑排掓掔掕掖掗掘掙掚掛掜掝掞掟掠採探掣掤接掦控推掩措掫掬掭掮掯掰掱掲掳掴掵掶掷掸掹掺掻掼掽掾掿揀揁揂揃揄揅揆揇揈揉揊揋揌揍揎描提揑插揓揔揕揖揗揘揙揚換揜揝揞揟揠握揢揣揤揥揦揧揨揩揪揫揬揭揮揯揰揱揲揳援揵揶揷揸揹揺揻揼揽揾揿撀撁撂撃撄撅撆撇撈撉撊撋撌撍撎撏撐撑撒撓撔撕撖撗撘撙撚撛撜撝撞撟撠撡撢撣撤撥撦撧撨撩撪撫撬播撮撯撰撱撲撳撴撵撶撷撸撹撺撻撼撽撾撿擀擁擂擃擄擅擆擇擈擉擊擋擌操擎擏擐擑擒擓擔擕擖擗擘擙據擛擜擝擞擟擠擡擢擣擤擥擦擧擨擩擪擫擬擭擮擯擰擱擲擳擴擵擶擷擸擹擺擻擼擽擾擿斀斁斂斃斄斅斆文斈斉斊斋斌斍斎斏斐斑斒斓斔斕斖斗斘料斚斛斜斝斞斟斠斡斢斣斤斥斦斧斨斩斪斫斬断斮斯新斱斲斳斴斵斶斷斸方斺斻於施斾斿旀旁旂旃旄旅旆旇旈旉旊旋旌旍旎族旐旑旒旓旔旕旖旗旘旙旚旛旜旝旞旟无旡既旣旤日旦旧旨早旪旫旬旭旮旯旰旱旲旳旴旵时旷旸旹旺旻旼旽旾旿暀暁暂暃暄暅暆暇暈暉暊暋暌暍暎暏暐暑暒暓暔暕暖暗暘暙暚暛暜暝暞暟暠暡暢暣暤暥暦暧暨暩暪暫暬暭暮暯暰暱暲暳暴暵暶暷暸暹暺暻暼暽暾暿曀曁曂曃曄曅曆曇曈曉曊曋曌曍曎曏曐曑曒曓曔曕曖曗曘曙曚曛曜曝曞曟曠曡曢曣曤曥曦曧曨曩曪曫曬曭曮曯曰曱曲曳更曵曶曷書曹曺曻曼曽曾替枀极枂枃构枅枆枇枈枉枊枋枌枍枎枏析枑枒枓枔枕枖林枘枙枚枛果枝枞枟枠枡枢枣枤枥枦枧枨枩枪枫枬枭枮枯枰枱枲枳枴枵架枷枸枹枺枻枼枽枾枿柀柁柂柃柄柅柆柇柈柉柊柋柌柍柎柏某柑柒染柔柕柖柗柘柙柚柛柜柝柞柟柠柡柢柣柤查柦柧柨柩柪柫柬柭柮柯柰柱柲柳柴柵柶柷柸柹柺査柼柽柾柿梀梁梂梃梄梅梆梇梈梉梊梋梌梍梎梏梐梑梒梓梔梕梖梗梘梙梚梛梜條梞梟梠梡梢梣梤梥梦梧梨梩梪梫梬梭梮梯械梱梲梳梴梵梶梷梸梹梺梻梼梽梾梿检棁棂棃棄棅棆棇棈棉棊棋棌棍棎棏棐棑棒棓棔棕棖棗棘棙棚棛棜棝棞棟棠棡棢棣棤棥棦棧棨棩棪棫棬棭森棯棰棱棲棳棴棵棶棷棸棹棺棻棼棽棾棿榀榁概榃榄榅榆榇榈榉榊榋榌榍榎榏榐榑榒榓榔榕榖榗榘榙榚榛榜榝榞榟榠榡榢榣榤榥榦榧榨榩榪榫榬榭榮榯榰榱榲榳榴榵榶榷榸榹榺榻榼榽榾榿槀槁槂槃槄槅槆槇槈槉槊構槌槍槎槏槐槑槒槓槔槕槖槗様槙槚槛槜槝槞槟槠槡槢槣槤槥槦槧槨槩槪槫槬槭槮槯槰槱槲槳槴槵槶槷槸槹槺槻槼槽槾槿檀檁檂檃檄檅檆檇檈檉檊檋檌檍檎檏檐檑檒檓檔檕檖檗檘檙檚檛檜檝檞檟檠檡檢檣檤檥檦檧檨檩檪檫檬檭檮檯檰檱檲檳檴檵檶檷檸檹檺檻檼檽檾檿櫀櫁櫂櫃櫄櫅櫆櫇櫈櫉櫊櫋櫌櫍櫎櫏櫐櫑櫒櫓櫔櫕櫖櫗櫘櫙櫚櫛櫜櫝櫞櫟櫠櫡櫢櫣櫤櫥櫦櫧櫨櫩櫪櫫櫬櫭櫮櫯櫰櫱櫲櫳櫴櫵櫶櫷櫸櫹櫺櫻櫼櫽櫾櫿殀殁殂殃殄殅殆殇殈殉殊残殌殍殎殏殐殑殒殓殔殕殖殗殘殙殚殛殜殝殞殟殠殡殢殣殤殥殦殧殨殩殪殫殬殭殮殯殰殱殲殳殴段殶殷殸殹殺殻殼殽殾殿毀毁毂毃毄毅毆毇毈毉毊毋毌母毎每毐毑毒毓比毕毖毗毘毙毚毛毜毝毞毟毠毡毢毣毤毥毦毧毨毩毪毫毬毭毮毯毰毱毲毳毴毵毶毷毸毹毺毻毼毽毾毿沀沁沂沃沄沅沆沇沈沉沊沋沌沍沎沏沐沑沒沓沔沕沖沗沘沙沚沛沜沝沞沟沠没沢沣沤沥沦沧沨沩沪沫沬沭沮沯沰沱沲河沴沵沶沷沸油沺治沼沽沾沿泀況泂泃泄泅泆泇泈泉泊泋泌泍泎泏泐泑泒泓泔法泖泗泘泙泚泛泜泝泞泟泠泡波泣泤泥泦泧注泩泪泫泬泭泮泯泰泱泲泳泴泵泶泷泸泹泺泻泼泽泾泿涀涁涂涃涄涅涆涇消涉涊涋涌涍涎涏涐涑涒涓涔涕涖涗涘涙涚涛涜涝涞涟涠涡涢涣涤涥润涧涨涩涪涫涬涭涮涯涰涱液涳涴涵涶涷涸涹涺涻涼涽涾涿淀淁淂淃淄淅淆淇淈淉淊淋淌淍淎淏淐淑淒淓淔淕淖淗淘淙淚淛淜淝淞淟淠淡淢淣淤淥淦淧淨淩淪淫淬淭淮淯淰深淲淳淴淵淶混淸淹淺添淼淽淾淿満溁溂溃溄溅溆溇溈溉溊溋溌溍溎溏源溑溒溓溔溕準溗溘溙溚溛溜溝溞溟溠溡溢溣溤溥溦溧溨溩溪溫溬溭溮溯溰溱溲溳溴溵溶溷溸溹溺溻溼溽溾溿滀滁滂滃滄滅滆滇滈滉滊滋滌滍滎滏滐滑滒滓滔滕滖滗滘滙滚滛滜滝滞滟滠满滢滣滤滥滦滧滨滩滪滫滬滭滮滯滰滱滲滳滴滵滶滷滸滹滺滻滼滽滾滿澀澁澂澃澄澅澆澇澈澉澊澋澌澍澎澏澐澑澒澓澔澕澖澗澘澙澚澛澜澝澞澟澠澡澢澣澤澥澦澧澨澩澪澫澬澭澮澯澰澱澲澳澴澵澶澷澸澹澺澻澼澽澾澿激濁濂濃濄濅濆濇濈濉濊濋濌濍濎濏濐濑濒濓濔濕濖濗濘濙濚濛濜濝濞濟濠濡濢濣濤濥濦濧濨濩濪濫濬濭濮濯濰濱濲濳濴濵濶濷濸濹濺濻濼濽濾濿炀炁炂炃炄炅炆炇炈炉炊炋炌炍炎炏炐炑炒炓炔炕炖炗炘炙炚炛炜炝炞炟炠炡炢炣炤炥炦炧炨炩炪炫炬炭炮炯炰炱炲炳炴炵炶炷炸点為炻炼炽炾炿烀烁烂烃烄烅烆烇烈烉烊烋烌烍烎烏烐烑烒烓烔烕烖烗烘烙烚烛烜烝烞烟烠烡烢烣烤烥烦烧烨烩烪烫烬热烮烯烰烱烲烳烴烵烶烷烸烹烺烻烼烽烾烿熀熁熂熃熄熅熆熇熈熉熊熋熌熍熎熏熐熑熒熓熔熕熖熗熘熙熚熛熜熝熞熟熠熡熢熣熤熥熦熧熨熩熪熫熬熭熮熯熰熱熲熳熴熵熶熷熸熹熺熻熼熽熾熿燀燁燂燃燄燅燆燇燈燉燊燋燌燍燎燏燐燑燒燓燔燕燖燗燘燙燚燛燜燝燞營燠燡燢燣燤燥燦燧燨燩燪燫燬燭燮燯燰燱燲燳燴燵燶燷燸燹燺燻燼燽燾燿犀犁犂犃犄犅犆犇犈犉犊犋犌犍犎犏犐犑犒犓犔犕犖犗犘犙犚犛犜犝犞犟犠犡犢犣犤犥犦犧犨犩犪犫犬犭犮犯犰犱犲犳犴犵状犷犸犹犺犻犼犽犾犿狀狁狂狃狄狅狆狇狈狉狊狋狌狍狎狏狐狑狒狓狔狕狖狗狘狙狚狛狜狝狞狟狠狡狢狣狤狥狦狧狨狩狪狫独狭狮狯狰狱狲狳狴狵狶狷狸狹狺狻狼狽狾狿玀玁玂玃玄玅玆率玈玉玊王玌玍玎玏玐玑玒玓玔玕玖玗玘玙玚玛玜玝玞玟玠玡玢玣玤玥玦玧玨玩玪玫玬玭玮环现玱玲玳玴玵玶玷玸玹玺玻玼玽玾玿珀珁珂珃珄珅珆珇珈珉珊珋珌珍珎珏珐珑珒珓珔珕珖珗珘珙珚珛珜珝珞珟珠珡珢珣珤珥珦珧珨珩珪珫珬班珮珯珰珱珲珳珴珵珶珷珸珹珺珻珼珽現珿璀璁璂璃璄璅璆璇璈璉璊璋璌璍璎璏璐璑璒璓璔璕璖璗璘璙璚璛璜璝璞璟璠璡璢璣璤璥璦璧璨璩璪璫璬璭璮璯環璱璲璳璴璵璶璷璸璹璺璻璼璽璾璿瓀瓁瓂瓃瓄瓅瓆瓇瓈瓉瓊瓋瓌瓍瓎瓏瓐瓑瓒瓓瓔瓕瓖瓗瓘瓙瓚瓛瓜瓝瓞瓟瓠瓡瓢瓣瓤瓥瓦瓧瓨瓩瓪瓫瓬瓭瓮瓯瓰瓱瓲瓳瓴瓵瓶瓷瓸瓹瓺瓻瓼瓽瓾瓿疀疁疂疃疄疅疆疇疈疉疊疋疌疍疎疏疐疑疒疓疔疕疖疗疘疙疚疛疜疝疞疟疠疡疢疣疤疥疦疧疨疩疪疫疬疭疮疯疰疱疲疳疴疵疶疷疸疹疺疻疼疽疾疿痀痁痂痃痄病痆症痈痉痊痋痌痍痎痏痐痑痒痓痔痕痖痗痘痙痚痛痜痝痞痟痠痡痢痣痤痥痦痧痨痩痪痫痬痭痮痯痰痱痲痳痴痵痶痷痸痹痺痻痼痽痾痿皀皁皂皃的皅皆皇皈皉皊皋皌皍皎皏皐皑皒皓皔皕皖皗皘皙皚皛皜皝皞皟皠皡皢皣皤皥皦皧皨皩皪皫皬皭皮皯皰皱皲皳皴皵皶皷皸皹皺皻皼皽皾皿盀盁盂盃盄盅盆盇盈盉益盋盌盍盎盏盐监盒盓盔盕盖盗盘盙盚盛盜盝盞盟盠盡盢監盤盥盦盧盨盩盪盫盬盭目盯盰盱盲盳直盵盶盷相盹盺盻盼盽盾盿瞀瞁瞂瞃瞄瞅瞆瞇瞈瞉瞊瞋瞌瞍瞎瞏瞐瞑瞒瞓瞔瞕瞖瞗瞘瞙瞚瞛瞜瞝瞞瞟瞠瞡瞢瞣瞤瞥瞦瞧瞨瞩瞪瞫瞬瞭瞮瞯瞰瞱瞲瞳瞴瞵瞶瞷瞸瞹瞺瞻瞼瞽瞾瞿矀矁矂矃矄矅矆矇矈矉矊矋矌矍矎矏矐矑矒矓矔矕矖矗矘矙矚矛矜矝矞矟矠矡矢矣矤知矦矧矨矩矪矫矬短矮矯矰矱矲石矴矵矶矷矸矹矺矻矼矽矾矿碀碁碂碃碄碅碆碇碈碉碊碋碌碍碎碏碐碑碒碓碔碕碖碗碘碙碚碛碜碝碞碟碠碡碢碣碤碥碦碧碨碩碪碫碬碭碮碯碰碱碲碳碴碵碶碷碸碹確碻碼碽碾碿磀磁磂磃磄磅磆磇磈磉磊磋磌磍磎磏磐磑磒磓磔磕磖磗磘磙磚磛磜磝磞磟磠磡磢磣磤磥磦磧磨磩磪磫磬磭磮磯磰磱磲磳磴磵磶磷磸磹磺磻磼磽磾磿禀禁禂禃禄禅禆禇禈禉禊禋禌禍禎福禐禑禒禓禔禕禖禗禘禙禚禛禜禝禞禟禠禡禢禣禤禥禦禧禨禩禪禫禬禭禮禯禰禱禲禳禴禵禶禷禸禹禺离禼禽禾禿秀私秂秃秄秅秆秇秈秉秊秋秌种秎秏秐科秒秓秔秕秖秗秘秙秚秛秜秝秞租秠秡秢秣秤秥秦秧秨秩秪秫秬秭秮积称秱秲秳秴秵秶秷秸秹秺移秼秽秾秿窀突窂窃窄窅窆窇窈窉窊窋窌窍窎窏窐窑窒窓窔窕窖窗窘窙窚窛窜窝窞窟窠窡窢窣窤窥窦窧窨窩窪窫窬窭窮窯窰窱窲窳窴窵窶窷窸窹窺窻窼窽窾窿竀竁竂竃竄竅竆竇竈竉竊立竌竍竎竏竐竑竒竓竔竕竖竗竘站竚竛竜竝竞竟章竡竢竣竤童竦竧竨竩竪竫竬竭竮端竰竱竲竳竴竵競竷竸竹竺竻竼竽竾竿简箁箂箃箄箅箆箇箈箉箊箋箌箍箎箏箐箑箒箓箔箕箖算箘箙箚箛箜箝箞箟箠管箢箣箤箥箦箧箨箩箪箫箬箭箮箯箰箱箲箳箴箵箶箷箸箹箺箻箼箽箾箿節篁篂篃範篅篆篇篈築篊篋篌篍篎篏篐篑篒篓篔篕篖篗篘篙篚篛篜篝篞篟篠篡篢篣篤篥篦篧篨篩篪篫篬篭篮篯篰篱篲篳篴篵篶篷篸篹篺篻篼篽篾篿粀粁粂粃粄粅粆粇粈粉粊粋粌粍粎粏粐粑粒粓粔粕粖粗粘粙粚粛粜粝粞粟粠粡粢粣粤粥粦粧粨粩粪粫粬粭粮粯粰粱粲粳粴粵粶粷粸粹粺粻粼粽精粿糀糁糂糃糄糅糆糇糈糉糊糋糌糍糎糏糐糑糒糓糔糕糖糗糘糙糚糛糜糝糞糟糠糡糢糣糤糥糦糧糨糩糪糫糬糭糮糯糰糱糲糳糴糵糶糷糸糹糺系糼糽糾糿綀綁綂綃綄綅綆綇綈綉綊綋綌綍綎綏綐綑綒經綔綕綖綗綘継続綛綜綝綞綟綠綡綢綣綤綥綦綧綨綩綪綫綬維綮綯綰綱網綳綴綵綶綷綸綹綺綻綼綽綾綿緀緁緂緃緄緅緆緇緈緉緊緋緌緍緎総緐緑緒緓緔緕緖緗緘緙線緛緜緝緞緟締緡緢緣緤緥緦緧編緩緪緫緬緭緮緯緰緱緲緳練緵緶緷緸緹緺緻緼緽緾緿纀纁纂纃纄纅纆纇纈纉纊纋續纍纎纏纐纑纒纓纔纕纖纗纘纙纚纛纜纝纞纟纠纡红纣纤纥约级纨纩纪纫纬纭纮纯纰纱纲纳纴纵纶纷纸纹纺纻纼纽纾线绀绁绂练组绅细织终绉绊绋绌绍绎经绐绑绒结绔绕绖绗绘给绚绛络绝绞统绠绡绢绣绤绥绦继绨绩绪绫绬续绮绯绰绱绲绳维绵绶绷绸绹绺绻综绽绾绿羀羁羂羃羄羅羆羇羈羉羊羋羌羍美羏羐羑羒羓羔羕羖羗羘羙羚羛羜羝羞羟羠羡羢羣群羥羦羧羨義羪羫羬羭羮羯羰羱羲羳羴羵羶羷羸羹羺羻羼羽羾羿翀翁翂翃翄翅翆翇翈翉翊翋翌翍翎翏翐翑習翓翔翕翖翗翘翙翚翛翜翝翞翟翠翡翢翣翤翥翦翧翨翩翪翫翬翭翮翯翰翱翲翳翴翵翶翷翸翹翺翻翼翽翾翿肀肁肂肃肄肅肆肇肈肉肊肋肌肍肎肏肐肑肒肓肔肕肖肗肘肙肚肛肜肝肞肟肠股肢肣肤肥肦肧肨肩肪肫肬肭肮肯肰肱育肳肴肵肶肷肸肹肺肻肼肽肾肿胀胁胂胃胄胅胆胇胈胉胊胋背胍胎胏胐胑胒胓胔胕胖胗胘胙胚胛胜胝胞胟胠胡胢胣胤胥胦胧胨胩胪胫胬胭胮胯胰胱胲胳胴胵胶胷胸胹胺胻胼能胾胿膀膁膂膃膄膅膆膇膈膉膊膋膌膍膎膏膐膑膒膓膔膕膖膗膘膙膚膛膜膝膞膟膠膡膢膣膤膥膦膧膨膩膪膫膬膭膮膯膰膱膲膳膴膵膶膷膸膹膺膻膼膽膾膿臀臁臂臃臄臅臆臇臈臉臊臋臌臍臎臏臐臑臒臓臔臕臖臗臘臙臚臛臜臝臞臟臠臡臢臣臤臥臦臧臨臩自臫臬臭臮臯臰臱臲至致臵臶臷臸臹臺臻臼臽臾臿芀芁节芃芄芅芆芇芈芉芊芋芌芍芎芏芐芑芒芓芔芕芖芗芘芙芚芛芜芝芞芟芠芡芢芣芤芥芦芧芨芩芪芫芬芭芮芯芰花芲芳芴芵芶芷芸芹芺芻芼芽芾芿苀苁苂苃苄苅苆苇苈苉苊苋苌苍苎苏苐苑苒苓苔苕苖苗苘苙苚苛苜苝苞苟苠苡苢苣苤若苦苧苨苩苪苫苬苭苮苯苰英苲苳苴苵苶苷苸苹苺苻苼苽苾苿莀莁莂莃莄莅莆莇莈莉莊莋莌莍莎莏莐莑莒莓莔莕莖莗莘莙莚莛莜莝莞莟莠莡莢莣莤莥莦莧莨莩莪莫莬莭莮莯莰莱莲莳莴莵莶获莸莹莺莻莼莽莾莿菀菁菂菃菄菅菆菇菈菉菊菋菌菍菎菏菐菑菒菓菔菕菖菗菘菙菚菛菜菝菞菟菠菡菢菣菤菥菦菧菨菩菪菫菬菭菮華菰菱菲菳菴菵菶菷菸菹菺菻菼菽菾菿蒀蒁蒂蒃蒄蒅蒆蒇蒈蒉蒊蒋蒌蒍蒎蒏蒐蒑蒒蒓蒔蒕蒖蒗蒘蒙蒚蒛蒜蒝蒞蒟蒠蒡蒢蒣蒤蒥蒦蒧蒨蒩蒪蒫蒬蒭蒮蒯蒰蒱蒲蒳蒴蒵蒶蒷蒸蒹蒺蒻蒼蒽蒾蒿蓀蓁蓂蓃蓄蓅蓆蓇蓈蓉蓊蓋蓌蓍蓎蓏蓐蓑蓒蓓蓔蓕蓖蓗蓘蓙蓚蓛蓜蓝蓞蓟蓠蓡蓢蓣蓤蓥蓦蓧蓨蓩蓪蓫蓬蓭蓮蓯蓰蓱蓲蓳蓴蓵蓶蓷蓸蓹蓺蓻蓼蓽蓾蓿薀薁薂薃薄薅薆薇薈薉薊薋薌薍薎薏薐薑薒薓薔薕薖薗薘薙薚薛薜薝薞薟薠薡薢薣薤薥薦薧薨薩薪薫薬薭薮薯薰薱薲薳薴薵薶薷薸薹薺薻薼薽薾薿藀藁藂藃藄藅藆藇藈藉藊藋藌藍藎藏藐藑藒藓藔藕藖藗藘藙藚藛藜藝藞藟藠藡藢藣藤藥藦藧藨藩藪藫藬藭藮藯藰藱藲藳藴藵藶藷藸藹藺藻藼藽藾藿蚀蚁蚂蚃蚄蚅蚆蚇蚈蚉蚊蚋蚌蚍蚎蚏蚐蚑蚒蚓蚔蚕蚖蚗蚘蚙蚚蚛蚜蚝蚞蚟蚠蚡蚢蚣蚤蚥蚦蚧蚨蚩蚪蚫蚬蚭蚮蚯蚰蚱蚲蚳蚴蚵蚶蚷蚸蚹蚺蚻蚼蚽蚾蚿蛀蛁蛂蛃蛄蛅蛆蛇蛈蛉蛊蛋蛌蛍蛎蛏蛐蛑蛒蛓蛔蛕蛖蛗蛘蛙蛚蛛蛜蛝蛞蛟蛠蛡蛢蛣蛤蛥蛦蛧蛨蛩蛪蛫蛬蛭蛮蛯蛰蛱蛲蛳蛴蛵蛶蛷蛸蛹蛺蛻蛼蛽蛾蛿螀螁螂螃螄螅螆螇螈螉螊螋螌融螎螏螐螑螒螓螔螕螖螗螘螙螚螛螜螝螞螟螠螡螢螣螤螥螦螧螨螩螪螫螬螭螮螯螰螱螲螳螴螵螶螷螸螹螺螻螼螽螾螿蟀蟁蟂蟃蟄蟅蟆蟇蟈蟉蟊蟋蟌蟍蟎蟏蟐蟑蟒蟓蟔蟕蟖蟗蟘蟙蟚蟛蟜蟝蟞蟟蟠蟡蟢蟣蟤蟥蟦蟧蟨蟩蟪蟫蟬蟭蟮蟯蟰蟱蟲蟳蟴蟵蟶蟷蟸蟹蟺蟻蟼蟽蟾蟿袀袁袂袃袄袅袆袇袈袉袊袋袌袍袎袏袐袑袒袓袔袕袖袗袘袙袚袛袜袝袞袟袠袡袢袣袤袥袦袧袨袩袪被袬袭袮袯袰袱袲袳袴袵袶袷袸袹袺袻袼袽袾袿裀裁裂裃裄装裆裇裈裉裊裋裌裍裎裏裐裑裒裓裔裕裖裗裘裙裚裛補裝裞裟裠裡裢裣裤裥裦裧裨裩裪裫裬裭裮裯裰裱裲裳裴裵裶裷裸裹裺裻裼製裾裿覀要覂覃覄覅覆覇覈覉覊見覌覍覎規覐覑覒覓覔覕視覗覘覙覚覛覜覝覞覟覠覡覢覣覤覥覦覧覨覩親覫覬覭覮覯覰覱覲観覴覵覶覷覸覹覺覻覼覽覾覿觀见观觃规觅视觇览觉觊觋觌觍觎觏觐觑角觓觔觕觖觗觘觙觚觛觜觝觞觟觠觡觢解觤觥触觧觨觩觪觫觬觭觮觯觰觱觲觳觴觵觶觷觸觹觺觻觼觽觾觿誀誁誂誃誄誅誆誇誈誉誊誋誌認誎誏誐誑誒誓誔誕誖誗誘誙誚誛誜誝語誟誠誡誢誣誤誥誦誧誨誩說誫説読誮誯誰誱課誳誴誵誶誷誸誹誺誻誼誽誾調諀諁諂諃諄諅諆談諈諉諊請諌諍諎諏諐諑諒諓諔諕論諗諘諙諚諛諜諝諞諟諠諡諢諣諤諥諦諧諨諩諪諫諬諭諮諯諰諱諲諳諴諵諶諷諸諹諺諻諼諽諾諿讀讁讂讃讄讅讆讇讈讉變讋讌讍讎讏讐讑讒讓讔讕讖讗讘讙讚讛讜讝讞讟讠计订讣认讥讦讧讨让讪讫讬训议讯记讱讲讳讴讵讶讷许讹论讻讼讽设访诀证诂诃评诅识诇诈诉诊诋诌词诎诏诐译诒诓诔试诖诗诘诙诚诛诜话诞诟诠诡询诣诤该详诧诨诩诪诫诬语诮误诰诱诲诳说诵诶请诸诹诺读诼诽课诿貀貁貂貃貄貅貆貇貈貉貊貋貌貍貎貏貐貑貒貓貔貕貖貗貘貙貚貛貜貝貞貟負財貢貣貤貥貦貧貨販貪貫責貭貮貯貰貱貲貳貴貵貶買貸貹貺費貼貽貾貿賀賁賂賃賄賅賆資賈賉賊賋賌賍賎賏賐賑賒賓賔賕賖賗賘賙賚賛賜賝賞賟賠賡賢賣賤賥賦賧賨賩質賫賬賭賮賯賰賱賲賳賴賵賶賷賸賹賺賻購賽賾賿趀趁趂趃趄超趆趇趈趉越趋趌趍趎趏趐趑趒趓趔趕趖趗趘趙趚趛趜趝趞趟趠趡趢趣趤趥趦趧趨趩趪趫趬趭趮趯趰趱趲足趴趵趶趷趸趹趺趻趼趽趾趿跀跁跂跃跄跅跆跇跈跉跊跋跌跍跎跏跐跑跒跓跔跕跖跗跘跙跚跛跜距跞跟跠跡跢跣跤跥跦跧跨跩跪跫跬跭跮路跰跱跲跳跴践跶跷跸跹跺跻跼跽跾跿躀躁躂躃躄躅躆躇躈躉躊躋躌躍躎躏躐躑躒躓躔躕躖躗躘躙躚躛躜躝躞躟躠躡躢躣躤躥躦躧躨躩躪身躬躭躮躯躰躱躲躳躴躵躶躷躸躹躺躻躼躽躾躿軀軁軂軃軄軅軆軇軈軉車軋軌軍軎軏軐軑軒軓軔軕軖軗軘軙軚軛軜軝軞軟軠軡転軣軤軥軦軧軨軩軪軫軬軭軮軯軰軱軲軳軴軵軶軷軸軹軺軻軼軽軾軿辀辁辂较辄辅辆辇辈辉辊辋辌辍辎辏辐辑辒输辔辕辖辗辘辙辚辛辜辝辞辟辠辡辢辣辤辥辦辧辨辩辪辫辬辭辮辯辰辱農辳辴辵辶辷辸边辺辻込辽达辿迀迁迂迃迄迅迆过迈迉迊迋迌迍迎迏运近迒迓返迕迖迗还这迚进远违连迟迠迡迢迣迤迥迦迧迨迩迪迫迬迭迮迯述迱迲迳迴迵迶迷迸迹迺迻迼追迾迿邀邁邂邃還邅邆邇邈邉邊邋邌邍邎邏邐邑邒邓邔邕邖邗邘邙邚邛邜邝邞邟邠邡邢那邤邥邦邧邨邩邪邫邬邭邮邯邰邱邲邳邴邵邶邷邸邹邺邻邼邽邾邿郀郁郂郃郄郅郆郇郈郉郊郋郌郍郎郏郐郑郒郓郔郕郖郗郘郙郚郛郜郝郞郟郠郡郢郣郤郥郦郧部郩郪郫郬郭郮郯郰郱郲郳郴郵郶郷郸郹郺郻郼都郾郿醀醁醂醃醄醅醆醇醈醉醊醋醌醍醎醏醐醑醒醓醔醕醖醗醘醙醚醛醜醝醞醟醠醡醢醣醤醥醦醧醨醩醪醫醬醭醮醯醰醱醲醳醴醵醶醷醸醹醺醻醼醽醾醿釀釁釂釃釄釅釆采釈釉释釋里重野量釐金釒釓釔釕釖釗釘釙釚釛釜針釞釟釠釡釢釣釤釥釦釧釨釩釪釫釬釭釮釯釰釱釲釳釴釵釶釷釸釹釺釻釼釽釾釿銀銁銂銃銄銅銆銇銈銉銊銋銌銍銎銏銐銑銒銓銔銕銖銗銘銙銚銛銜銝銞銟銠銡銢銣銤銥銦銧銨銩銪銫銬銭銮銯銰銱銲銳銴銵銶銷銸銹銺銻銼銽銾銿鋀鋁鋂鋃鋄鋅鋆鋇鋈鋉鋊鋋鋌鋍鋎鋏鋐鋑鋒鋓鋔鋕鋖鋗鋘鋙鋚鋛鋜鋝鋞鋟鋠鋡鋢鋣鋤鋥鋦鋧鋨鋩鋪鋫鋬鋭鋮鋯鋰鋱鋲鋳鋴鋵鋶鋷鋸鋹鋺鋻鋼鋽鋾鋿鎀鎁鎂鎃鎄鎅鎆鎇鎈鎉鎊鎋鎌鎍鎎鎏鎐鎑鎒鎓鎔鎕鎖鎗鎘鎙鎚鎛鎜鎝鎞鎟鎠鎡鎢鎣鎤鎥鎦鎧鎨鎩鎪鎫鎬鎭鎮鎯鎰鎱鎲鎳鎴鎵鎶鎷鎸鎹鎺鎻鎼鎽鎾鎿鏀鏁鏂鏃鏄鏅鏆鏇鏈鏉鏊鏋鏌鏍鏎鏏鏐鏑鏒鏓鏔鏕鏖鏗鏘鏙鏚鏛鏜鏝鏞鏟鏠鏡鏢鏣鏤鏥鏦鏧鏨鏩鏪鏫鏬鏭鏮鏯鏰鏱鏲鏳鏴鏵鏶鏷鏸鏹鏺鏻鏼鏽鏾鏿钀钁钂钃钄钅钆钇针钉钊钋钌钍钎钏钐钑钒钓钔钕钖钗钘钙钚钛钜钝钞钟钠钡钢钣钤钥钦钧钨钩钪钫钬钭钮钯钰钱钲钳钴钵钶钷钸钹钺钻钼钽钾钿铀铁铂铃铄铅铆铇铈铉铊铋铌铍铎铏铐铑铒铓铔铕铖铗铘铙铚铛铜铝铞铟铠铡铢铣铤铥铦铧铨铩铪铫铬铭铮铯铰铱铲铳铴铵银铷铸铹铺铻铼铽链铿門閁閂閃閄閅閆閇閈閉閊開閌閍閎閏閐閑閒間閔閕閖閗閘閙閚閛閜閝閞閟閠閡関閣閤閥閦閧閨閩閪閫閬閭閮閯閰閱閲閳閴閵閶閷閸閹閺閻閼閽閾閿闀闁闂闃闄闅闆闇闈闉闊闋闌闍闎闏闐闑闒闓闔闕闖闗闘闙闚闛關闝闞闟闠闡闢闣闤闥闦闧门闩闪闫闬闭问闯闰闱闲闳间闵闶闷闸闹闺闻闼闽闾闿隀隁隂隃隄隅隆隇隈隉隊隋隌隍階随隐隑隒隓隔隕隖隗隘隙隚際障隝隞隟隠隡隢隣隤隥隦隧隨隩險隫隬隭隮隯隰隱隲隳隴隵隶隷隸隹隺隻隼隽难隿雀雁雂雃雄雅集雇雈雉雊雋雌雍雎雏雐雑雒雓雔雕雖雗雘雙雚雛雜雝雞雟雠雡離難雤雥雦雧雨雩雪雫雬雭雮雯雰雱雲雳雴雵零雷雸雹雺電雼雽雾雿鞀鞁鞂鞃鞄鞅鞆鞇鞈鞉鞊鞋鞌鞍鞎鞏鞐鞑鞒鞓鞔鞕鞖鞗鞘鞙鞚鞛鞜鞝鞞鞟鞠鞡鞢鞣鞤鞥鞦鞧鞨鞩鞪鞫鞬鞭鞮鞯鞰鞱鞲鞳鞴鞵鞶鞷鞸鞹鞺鞻鞼鞽鞾鞿韀韁韂韃韄韅韆韇韈韉韊韋韌韍韎韏韐韑韒韓韔韕韖韗韘韙韚韛韜韝韞韟韠韡韢韣韤韥韦韧韨韩韪韫韬韭韮韯韰韱韲音韴韵韶韷韸韹韺韻韼韽韾響颀颁颂颃预颅领颇颈颉颊颋颌颍颎颏颐频颒颓颔颕颖颗题颙颚颛颜额颞颟颠颡颢颣颤颥颦颧風颩颪颫颬颭颮颯颰颱颲颳颴颵颶颷颸颹颺颻颼颽颾颿飀飁飂飃飄飅飆飇飈飉飊飋飌飍风飏飐飑飒飓飔飕飖飗飘飙飚飛飜飝飞食飠飡飢飣飤飥飦飧飨飩飪飫飬飭飮飯飰飱飲飳飴飵飶飷飸飹飺飻飼飽飾飿馀馁馂馃馄馅馆馇馈馉馊馋馌馍馎馏馐馑馒馓馔馕首馗馘香馚馛馜馝馞馟馠馡馢馣馤馥馦馧馨馩馪馫馬馭馮馯馰馱馲馳馴馵馶馷馸馹馺馻馼馽馾馿駀駁駂駃駄駅駆駇駈駉駊駋駌駍駎駏駐駑駒駓駔駕駖駗駘駙駚駛駜駝駞駟駠駡駢駣駤駥駦駧駨駩駪駫駬駭駮駯駰駱駲駳駴駵駶駷駸駹駺駻駼駽駾駿骀骁骂骃骄骅骆骇骈骉骊骋验骍骎骏骐骑骒骓骔骕骖骗骘骙骚骛骜骝骞骟骠骡骢骣骤骥骦骧骨骩骪骫骬骭骮骯骰骱骲骳骴骵骶骷骸骹骺骻骼骽骾骿髀髁髂髃髄髅髆髇髈髉髊髋髌髍髎髏髐髑髒髓體髕髖髗高髙髚髛髜髝髞髟髠髡髢髣髤髥髦髧髨髩髪髫髬髭髮髯髰髱髲髳髴髵髶髷髸髹髺髻髼髽髾髿鮀鮁鮂鮃鮄鮅鮆鮇鮈鮉鮊鮋鮌鮍鮎鮏鮐鮑鮒鮓鮔鮕鮖鮗鮘鮙鮚鮛鮜鮝鮞鮟鮠鮡鮢鮣鮤鮥鮦鮧鮨鮩鮪鮫鮬鮭鮮鮯鮰鮱鮲鮳鮴鮵鮶鮷鮸鮹鮺鮻鮼鮽鮾鮿鯀鯁鯂鯃鯄鯅鯆鯇鯈鯉鯊鯋鯌鯍鯎鯏鯐鯑鯒鯓鯔鯕鯖鯗鯘鯙鯚鯛鯜鯝鯞鯟鯠鯡鯢鯣鯤鯥鯦鯧鯨鯩鯪鯫鯬鯭鯮鯯鯰鯱鯲鯳鯴鯵鯶鯷鯸鯹鯺鯻鯼鯽鯾鯿鲀鲁鲂鲃鲄鲅鲆鲇鲈鲉鲊鲋鲌鲍鲎鲏鲐鲑鲒鲓鲔鲕鲖鲗鲘鲙鲚鲛鲜鲝鲞鲟鲠鲡鲢鲣鲤鲥鲦鲧鲨鲩鲪鲫鲬鲭鲮鲯鲰鲱鲲鲳鲴鲵鲶鲷鲸鲹鲺鲻鲼鲽鲾鲿鳀鳁鳂鳃鳄鳅鳆鳇鳈鳉鳊鳋鳌鳍鳎鳏鳐鳑鳒鳓鳔鳕鳖鳗鳘鳙鳚鳛鳜鳝鳞鳟鳠鳡鳢鳣鳤鳥鳦鳧鳨鳩鳪鳫鳬鳭鳮鳯鳰鳱鳲鳳鳴鳵鳶鳷鳸鳹鳺鳻鳼鳽鳾鳿鶀鶁鶂鶃鶄鶅鶆鶇鶈鶉鶊鶋鶌鶍鶎鶏鶐鶑鶒鶓鶔鶕鶖鶗鶘鶙鶚鶛鶜鶝鶞鶟鶠鶡鶢鶣鶤鶥鶦鶧鶨鶩鶪鶫鶬鶭鶮鶯鶰鶱鶲鶳鶴鶵鶶鶷鶸鶹鶺鶻鶼鶽鶾鶿鷀鷁鷂鷃鷄鷅鷆鷇鷈鷉鷊鷋鷌鷍鷎鷏鷐鷑鷒鷓鷔鷕鷖鷗鷘鷙鷚鷛鷜鷝鷞鷟鷠鷡鷢鷣鷤鷥鷦鷧鷨鷩鷪鷫鷬鷭鷮鷯鷰鷱鷲鷳鷴鷵鷶鷷鷸鷹鷺鷻鷼鷽鷾鷿麀麁麂麃麄麅麆麇麈麉麊麋麌麍麎麏麐麑麒麓麔麕麖麗麘麙麚麛麜麝麞麟麠麡麢麣麤麥麦麧麨麩麪麫麬麭麮麯麰麱麲麳麴麵麶麷麸麹麺麻麼麽麾麿黀黁黂黃黄黅黆黇黈黉黊黋黌黍黎黏黐黑黒黓黔黕黖黗默黙黚黛黜黝點黟黠黡黢黣黤黥黦黧黨黩黪黫黬黭黮黯黰黱黲黳黴黵黶黷黸黹黺黻黼黽黾黿龀龁龂龃龄龅龆龇龈龉龊龋龌龍龎龏龐龑龒龓龔龕龖龗龘龙龚龛龜龝龞龟龠龡龢龣龤龥龦龧龨龩龪龫龬龭龮龯龰龱龲龳龴龵龶龷龸龹龺龻龼龽龾龿鿀鿁鿂鿃鿄鿅鿆鿇鿈鿉鿊鿋鿌鿍鿎鿏鿐鿑鿒鿓鿔鿕鿖鿗鿘鿙鿚鿛鿜鿝鿞鿟鿠鿡鿢鿣鿤鿥鿦鿧鿨鿩鿪鿫鿬鿭鿮鿯鿰鿱鿲鿳鿴鿵鿶鿷鿸鿹鿺鿻鿼鿽鿾鿿ꂀꂁꂂꂃꂄꂅꂆꂇꂈꂉꂊꂋꂌꂍꂎꂏꂐꂑꂒꂓꂔꂕꂖꂗꂘꂙꂚꂛꂜꂝꂞꂟꂠꂡꂢꂣꂤꂥꂦꂧꂨꂩꂪꂫꂬꂭꂮꂯꂰꂱꂲꂳꂴꂵꂶꂷꂸꂹꂺꂻꂼꂽꂾꂿꃀꃁꃂꃃꃄꃅꃆꃇꃈꃉꃊꃋꃌꃍꃎꃏꃐꃑꃒꃓꃔꃕꃖꃗꃘꃙꃚꃛꃜꃝꃞꃟꃠꃡꃢꃣꃤꃥꃦꃧꃨꃩꃪꃫꃬꃭꃮꃯꃰꃱꃲꃳꃴꃵꃶꃷꃸꃹꃺꃻꃼꃽꃾꃿꆀꆁꆂꆃꆄꆅꆆꆇꆈꆉꆊꆋꆌꆍꆎꆏꆐꆑꆒꆓꆔꆕꆖꆗꆘꆙꆚꆛꆜꆝꆞꆟꆠꆡꆢꆣꆤꆥꆦꆧꆨꆩꆪꆫꆬꆭꆮꆯꆰꆱꆲꆳꆴꆵꆶꆷꆸꆹꆺꆻꆼꆽꆾꆿꇀꇁꇂꇃꇄꇅꇆꇇꇈꇉꇊꇋꇌꇍꇎꇏꇐꇑꇒꇓꇔꇕꇖꇗꇘꇙꇚꇛꇜꇝꇞꇟꇠꇡꇢꇣꇤꇥꇦꇧꇨꇩꇪꇫꇬꇭꇮꇯꇰꇱꇲꇳꇴꇵꇶꇷꇸꇹꇺꇻꇼꇽꇾꇿꊀꊁꊂꊃꊄꊅꊆꊇꊈꊉꊊꊋꊌꊍꊎꊏꊐꊑꊒꊓꊔꊕꊖꊗꊘꊙꊚꊛꊜꊝꊞꊟꊠꊡꊢꊣꊤꊥꊦꊧꊨꊩꊪꊫꊬꊭꊮꊯꊰꊱꊲꊳꊴꊵꊶꊷꊸꊹꊺꊻꊼꊽꊾꊿꋀꋁꋂꋃꋄꋅꋆꋇꋈꋉꋊꋋꋌꋍꋎꋏꋐꋑꋒꋓꋔꋕꋖꋗꋘꋙꋚꋛꋜꋝꋞꋟꋠꋡꋢꋣꋤꋥꋦꋧꋨꋩꋪꋫꋬꋭꋮꋯꋰꋱꋲꋳꋴꋵꋶꋷꋸꋹꋺꋻꋼꋽꋾꋿꎀꎁꎂꎃꎄꎅꎆꎇꎈꎉꎊꎋꎌꎍꎎꎏꎐꎑꎒꎓꎔꎕꎖꎗꎘꎙꎚꎛꎜꎝꎞꎟꎠꎡꎢꎣꎤꎥꎦꎧꎨꎩꎪꎫꎬꎭꎮꎯꎰꎱꎲꎳꎴꎵꎶꎷꎸꎹꎺꎻꎼꎽꎾꎿꏀꏁꏂꏃꏄꏅꏆꏇꏈꏉꏊꏋꏌꏍꏎꏏꏐꏑꏒꏓꏔꏕꏖꏗꏘꏙꏚꏛꏜꏝꏞꏟꏠꏡꏢꏣꏤꏥꏦꏧꏨꏩꏪꏫꏬꏭꏮꏯꏰꏱꏲꏳꏴꏵꏶꏷꏸꏹꏺꏻꏼꏽꏾꏿꒀꒁꒂꒃꒄꒅꒆꒇꒈꒉꒊꒋꒌ꒍꒎꒏꒐꒑꒒꒓꒔꒕꒖꒗꒘꒙꒚꒛꒜꒝꒞꒟꒠꒡꒢꒣꒤꒥꒦꒧꒨꒩꒪꒫꒬꒭꒮꒯꒰꒱꒲꒳꒴꒵꒶꒷꒸꒹꒺꒻꒼꒽꒾꒿꓀꓁꓂꓃꓄꓅꓆꓇꓈꓉꓊꓋꓌꓍꓎꓏ꓐꓑꓒꓓꓔꓕꓖꓗꓘꓙꓚꓛꓜꓝꓞꓟꓠꓡꓢꓣꓤꓥꓦꓧꓨꓩꓪꓫꓬꓭꓮꓯꓰꓱꓲꓳꓴꓵꓶꓷꓸꓹꓺꓻꓼꓽ꓾꓿ꖀꖁꖂꖃꖄꖅꖆꖇꖈꖉꖊꖋꖌꖍꖎꖏꖐꖑꖒꖓꖔꖕꖖꖗꖘꖙꖚꖛꖜꖝꖞꖟꖠꖡꖢꖣꖤꖥꖦꖧꖨꖩꖪꖫꖬꖭꖮꖯꖰꖱꖲꖳꖴꖵꖶꖷꖸꖹꖺꖻꖼꖽꖾꖿꗀꗁꗂꗃꗄꗅꗆꗇꗈꗉꗊꗋꗌꗍꗎꗏꗐꗑꗒꗓꗔꗕꗖꗗꗘꗙꗚꗛꗜꗝꗞꗟꗠꗡꗢꗣꗤꗥꗦꗧꗨꗩꗪꗫꗬꗭꗮꗯꗰꗱꗲꗳꗴꗵꗶꗷꗸꗹꗺꗻꗼꗽꗾꗿꚀꚁꚂꚃꚄꚅꚆꚇꚈꚉꚊꚋꚌꚍꚎꚏꚐꚑꚒꚓꚔꚕꚖꚗꚘꚙꚚꚛꚜꚝꚞꚟꚠꚡꚢꚣꚤꚥꚦꚧꚨꚩꚪꚫꚬꚭꚮꚯꚰꚱꚲꚳꚴꚵꚶꚷꚸꚹꚺꚻꚼꚽꚾꚿꛀꛁꛂꛃꛄꛅꛆꛇꛈꛉꛊꛋꛌꛍꛎꛏꛐꛑꛒꛓꛔꛕꛖꛗꛘꛙꛚꛛꛜꛝꛞꛟꛠꛡꛢꛣꛤꛥꛦꛧꛨꛩꛪꛫꛬꛭꛮꛯ꛰꛱꛲꛳꛴꛵꛶꛷꛸꛹꛺꛻꛼꛽꛾꛿ꞀꞁꞂꞃꞄꞅꞆꞇꞈ꞉꞊ꞋꞌꞍꞎꞏꞐꞑꞒꞓꞔꞕꞖꞗꞘꞙꞚꞛꞜꞝꞞꞟꞠꞡꞢꞣꞤꞥꞦꞧꞨꞩꞪꞫꞬꞭꞮꞯꞰꞱꞲꞳꞴꞵꞶꞷꞸꞹꞺꞻꞼꞽꞾꞿꟀꟁꟂꟃꟄꟅꟆꟇꟈꟉꟊꟋꟌꟍ꟎꟏Ꟑꟑ꟒ꟓ꟔ꟕꟖꟗꟘꟙꟚꟛꟜ꟝꟞꟟꟠꟡꟢꟣꟤꟥꟦꟧꟨꟩꟪꟫꟬꟭꟮꟯꟰꟱ꟲꟳꟴꟵꟶꟷꟸꟹꟺꟻꟼꟽꟾꟿꢀꢁꢂꢃꢄꢅꢆꢇꢈꢉꢊꢋꢌꢍꢎꢏꢐꢑꢒꢓꢔꢕꢖꢗꢘꢙꢚꢛꢜꢝꢞꢟꢠꢡꢢꢣꢤꢥꢦꢧꢨꢩꢪꢫꢬꢭꢮꢯꢰꢱꢲꢳꢴꢵꢶꢷꢸꢹꢺꢻꢼꢽꢾꢿꣀꣁꣂꣃ꣄ꣅ꣆꣇꣈꣉꣊꣋꣌꣍꣎꣏꣐꣑꣒꣓꣔꣕꣖꣗꣘꣙꣚꣛꣜꣝꣞꣟꣠꣡꣢꣣꣤꣥꣦꣧꣨꣩꣪꣫꣬꣭꣮꣯꣰꣱ꣲꣳꣴꣵꣶꣷ꣸꣹꣺ꣻ꣼ꣽꣾꣿꦀꦁꦂꦃꦄꦅꦆꦇꦈꦉꦊꦋꦌꦍꦎꦏꦐꦑꦒꦓꦔꦕꦖꦗꦘꦙꦚꦛꦜꦝꦞꦟꦠꦡꦢꦣꦤꦥꦦꦧꦨꦩꦪꦫꦬꦭꦮꦯꦰꦱꦲ꦳ꦴꦵꦶꦷꦸꦹꦺꦻꦼꦽꦾꦿ꧀꧁꧂꧃꧄꧅꧆꧇꧈꧉꧊꧋꧌꧍꧎ꧏ꧐꧑꧒꧓꧔꧕꧖꧗꧘꧙꧚꧛꧜꧝꧞꧟ꧠꧡꧢꧣꧤꧥꧦꧧꧨꧩꧪꧫꧬꧭꧮꧯ꧰꧱꧲꧳꧴꧵꧶꧷꧸꧹ꧺꧻꧼꧽꧾ꧿ꪀꪁꪂꪃꪄꪅꪆꪇꪈꪉꪊꪋꪌꪍꪎꪏꪐꪑꪒꪓꪔꪕꪖꪗꪘꪙꪚꪛꪜꪝꪞꪟꪠꪡꪢꪣꪤꪥꪦꪧꪨꪩꪪꪫꪬꪭꪮꪯꪰꪱꪴꪲꪳꪵꪶꪷꪸꪹꪺꪻꪼꪽꪾ꪿ꫀ꫁ꫂ꫃꫄꫅꫆꫇꫈꫉꫊꫋꫌꫍꫎꫏꫐꫑꫒꫓꫔꫕꫖꫗꫘꫙꫚ꫛꫜꫝ꫞꫟ꫠꫡꫢꫣꫤꫥꫦꫧꫨꫩꫪꫫꫬꫭꫮꫯ꫰꫱ꫲꫳꫴꫵ꫶꫷꫸꫹꫺꫻꫼꫽꫾꫿ꮀꮁꮂꮃꮄꮅꮆꮇꮈꮉꮊꮋꮌꮍꮎꮏꮐꮑꮒꮓꮔꮕꮖꮗꮘꮙꮚꮛꮜꮝꮞꮟꮠꮡꮢꮣꮤꮥꮦꮧꮨꮩꮪꮫꮬꮭꮮꮯꮰꮱꮲꮳꮴꮵꮶꮷꮸꮹꮺꮻꮼꮽꮾꮿꯀꯁꯂꯃꯄꯅꯆꯇꯈꯉꯊꯋꯌꯍꯎꯏꯐꯑꯒꯓꯔꯕꯖꯗꯘꯙꯚꯛꯜꯝꯞꯟꯠꯡꯢꯣꯤꯥꯦꯧꯨꯩꯪ꯫꯬꯭꯮꯯꯰꯱꯲꯳꯴꯵꯶꯷꯸꯹꯺꯻꯼꯽꯾꯿검겁겂것겄겅겆겇겈겉겊겋게겍겎겏겐겑겒겓겔겕겖겗겘겙겚겛겜겝겞겟겠겡겢겣겤겥겦겧겨격겪겫견겭겮겯결겱겲겳겴겵겶겷겸겹겺겻겼경겾겿곀곁곂곃계곅곆곇곈곉곊곋곌곍곎곏곐곑곒곓곔곕곖곗곘곙곚곛곜곝곞곟고곡곢곣곤곥곦곧골곩곪곫곬곭곮곯곰곱곲곳곴공곶곷곸곹곺곻과곽곾곿궀궁궂궃궄궅궆궇궈궉궊궋권궍궎궏궐궑궒궓궔궕궖궗궘궙궚궛궜궝궞궟궠궡궢궣궤궥궦궧궨궩궪궫궬궭궮궯궰궱궲궳궴궵궶궷궸궹궺궻궼궽궾궿귀귁귂귃귄귅귆귇귈귉귊귋귌귍귎귏귐귑귒귓귔귕귖귗귘귙귚귛규귝귞귟균귡귢귣귤귥귦귧귨귩귪귫귬귭귮귯귰귱귲귳귴귵귶귷그극귺귻근귽귾귿꺀꺁꺂꺃꺄꺅꺆꺇꺈꺉꺊꺋꺌꺍꺎꺏꺐꺑꺒꺓꺔꺕꺖꺗꺘꺙꺚꺛꺜꺝꺞꺟꺠꺡꺢꺣꺤꺥꺦꺧꺨꺩꺪꺫꺬꺭꺮꺯꺰꺱꺲꺳꺴꺵꺶꺷꺸꺹꺺꺻꺼꺽꺾꺿껀껁껂껃껄껅껆껇껈껉껊껋껌껍껎껏껐껑껒껓껔껕껖껗께껙껚껛껜껝껞껟껠껡껢껣껤껥껦껧껨껩껪껫껬껭껮껯껰껱껲껳껴껵껶껷껸껹껺껻껼껽껾껿꾀꾁꾂꾃꾄꾅꾆꾇꾈꾉꾊꾋꾌꾍꾎꾏꾐꾑꾒꾓꾔꾕꾖꾗꾘꾙꾚꾛꾜꾝꾞꾟꾠꾡꾢꾣꾤꾥꾦꾧꾨꾩꾪꾫꾬꾭꾮꾯꾰꾱꾲꾳꾴꾵꾶꾷꾸꾹꾺꾻꾼꾽꾾꾿꿀꿁꿂꿃꿄꿅꿆꿇꿈꿉꿊꿋꿌꿍꿎꿏꿐꿑꿒꿓꿔꿕꿖꿗꿘꿙꿚꿛꿜꿝꿞꿟꿠꿡꿢꿣꿤꿥꿦꿧꿨꿩꿪꿫꿬꿭꿮꿯꿰꿱꿲꿳꿴꿵꿶꿷꿸꿹꿺꿻꿼꿽꿾꿿낀낁낂낃낄낅낆낇낈낉낊낋낌낍낎낏낐낑낒낓낔낕낖낗나낙낚낛난낝낞낟날낡낢낣낤낥낦낧남납낪낫났낭낮낯낰낱낲낳내낵낶낷낸낹낺낻낼낽낾낿냀냁냂냃냄냅냆냇냈냉냊냋냌냍냎냏냐냑냒냓냔냕냖냗냘냙냚냛냜냝냞냟냠냡냢냣냤냥냦냧냨냩냪냫냬냭냮냯냰냱냲냳냴냵냶냷냸냹냺냻냼냽냾냿놀놁놂놃놄놅놆놇놈놉놊놋놌농놎놏놐놑높놓놔놕놖놗놘놙놚놛놜놝놞놟놠놡놢놣놤놥놦놧놨놩놪놫놬놭놮놯놰놱놲놳놴놵놶놷놸놹놺놻놼놽놾놿뇀뇁뇂뇃뇄뇅뇆뇇뇈뇉뇊뇋뇌뇍뇎뇏뇐뇑뇒뇓뇔뇕뇖뇗뇘뇙뇚뇛뇜뇝뇞뇟뇠뇡뇢뇣뇤뇥뇦뇧뇨뇩뇪뇫뇬뇭뇮뇯뇰뇱뇲뇳뇴뇵뇶뇷뇸뇹뇺뇻뇼뇽뇾뇿늀늁늂늃늄늅늆늇늈늉늊늋늌늍늎늏느늑늒늓는늕늖늗늘늙늚늛늜늝늞늟늠늡늢늣늤능늦늧늨늩늪늫늬늭늮늯늰늱늲늳늴늵늶늷늸늹늺늻늼늽늾늿닀닁닂닃닄닅닆닇니닉닊닋닌닍닎닏닐닑닒닓닔닕닖닗님닙닚닛닜닝닞닟닠닡닢닣다닥닦닧단닩닪닫달닭닮닯닰닱닲닳담답닶닷닸당닺닻닼닽닾닿뎀뎁뎂뎃뎄뎅뎆뎇뎈뎉뎊뎋뎌뎍뎎뎏뎐뎑뎒뎓뎔뎕뎖뎗뎘뎙뎚뎛뎜뎝뎞뎟뎠뎡뎢뎣뎤뎥뎦뎧뎨뎩뎪뎫뎬뎭뎮뎯뎰뎱뎲뎳뎴뎵뎶뎷뎸뎹뎺뎻뎼뎽뎾뎿돀돁돂돃도독돆돇돈돉돊돋돌돍돎돏돐돑돒돓돔돕돖돗돘동돚돛돜돝돞돟돠돡돢돣돤돥돦돧돨돩돪돫돬돭돮돯돰돱돲돳돴돵돶돷돸돹돺돻돼돽돾돿뒀뒁뒂뒃뒄뒅뒆뒇뒈뒉뒊뒋뒌뒍뒎뒏뒐뒑뒒뒓뒔뒕뒖뒗뒘뒙뒚뒛뒜뒝뒞뒟뒠뒡뒢뒣뒤뒥뒦뒧뒨뒩뒪뒫뒬뒭뒮뒯뒰뒱뒲뒳뒴뒵뒶뒷뒸뒹뒺뒻뒼뒽뒾뒿듀듁듂듃듄듅듆듇듈듉듊듋듌듍듎듏듐듑듒듓듔듕듖듗듘듙듚듛드득듞듟든듡듢듣들듥듦듧듨듩듪듫듬듭듮듯듰등듲듳듴듵듶듷듸듹듺듻듼듽듾듿떀떁떂떃떄떅떆떇떈떉떊떋떌떍떎떏떐떑떒떓떔떕떖떗떘떙떚떛떜떝떞떟떠떡떢떣떤떥떦떧떨떩떪떫떬떭떮떯떰떱떲떳떴떵떶떷떸떹떺떻떼떽떾떿뗀뗁뗂뗃뗄뗅뗆뗇뗈뗉뗊뗋뗌뗍뗎뗏뗐뗑뗒뗓뗔뗕뗖뗗뗘뗙뗚뗛뗜뗝뗞뗟뗠뗡뗢뗣뗤뗥뗦뗧뗨뗩뗪뗫뗬뗭뗮뗯뗰뗱뗲뗳뗴뗵뗶뗷뗸뗹뗺뗻뗼뗽뗾뗿뚀뚁뚂뚃뚄뚅뚆뚇뚈뚉뚊뚋뚌뚍뚎뚏뚐뚑뚒뚓뚔뚕뚖뚗뚘뚙뚚뚛뚜뚝뚞뚟뚠뚡뚢뚣뚤뚥뚦뚧뚨뚩뚪뚫뚬뚭뚮뚯뚰뚱뚲뚳뚴뚵뚶뚷뚸뚹뚺뚻뚼뚽뚾뚿뛀뛁뛂뛃뛄뛅뛆뛇뛈뛉뛊뛋뛌뛍뛎뛏뛐뛑뛒뛓뛔뛕뛖뛗뛘뛙뛚뛛뛜뛝뛞뛟뛠뛡뛢뛣뛤뛥뛦뛧뛨뛩뛪뛫뛬뛭뛮뛯뛰뛱뛲뛳뛴뛵뛶뛷뛸뛹뛺뛻뛼뛽뛾뛿란랁랂랃랄랅랆랇랈랉랊랋람랍랎랏랐랑랒랓랔랕랖랗래랙랚랛랜랝랞랟랠랡랢랣랤랥랦랧램랩랪랫랬랭랮랯랰랱랲랳랴략랶랷랸랹랺랻랼랽랾랿럀럁럂럃럄럅럆럇럈량럊럋럌럍럎럏럐럑럒럓럔럕럖럗럘럙럚럛럜럝럞럟럠럡럢럣럤럥럦럧럨럩럪럫러럭럮럯런럱럲럳럴럵럶럷럸럹럺럻럼럽럾럿뢀뢁뢂뢃뢄뢅뢆뢇뢈뢉뢊뢋뢌뢍뢎뢏뢐뢑뢒뢓뢔뢕뢖뢗뢘뢙뢚뢛뢜뢝뢞뢟뢠뢡뢢뢣뢤뢥뢦뢧뢨뢩뢪뢫뢬뢭뢮뢯뢰뢱뢲뢳뢴뢵뢶뢷뢸뢹뢺뢻뢼뢽뢾뢿룀룁룂룃룄룅룆룇룈룉룊룋료룍룎룏룐룑룒룓룔룕룖룗룘룙룚룛룜룝룞룟룠룡룢룣룤룥룦룧루룩룪룫룬룭룮룯룰룱룲룳룴룵룶룷룸룹룺룻룼룽룾룿릀릁릂릃름릅릆릇릈릉릊릋릌릍릎릏릐릑릒릓릔릕릖릗릘릙릚릛릜릝릞릟릠릡릢릣릤릥릦릧릨릩릪릫리릭릮릯린릱릲릳릴릵릶릷릸릹릺릻림립릾릿맀링맂맃맄맅맆맇마막맊맋만맍많맏말맑맒맓맔맕맖맗맘맙맚맛맜망맞맟맠맡맢맣매맥맦맧맨맩맪맫맬맭맮맯맰맱맲맳맴맵맶맷맸맹맺맻맼맽맾맿몀몁몂몃몄명몆몇몈몉몊몋몌몍몎몏몐몑몒몓몔몕몖몗몘몙몚몛몜몝몞몟몠몡몢몣몤몥몦몧모목몪몫몬몭몮몯몰몱몲몳몴몵몶몷몸몹몺못몼몽몾몿뫀뫁뫂뫃뫄뫅뫆뫇뫈뫉뫊뫋뫌뫍뫎뫏뫐뫑뫒뫓뫔뫕뫖뫗뫘뫙뫚뫛뫜뫝뫞뫟뫠뫡뫢뫣뫤뫥뫦뫧뫨뫩뫪뫫뫬뫭뫮뫯뫰뫱뫲뫳뫴뫵뫶뫷뫸뫹뫺뫻뫼뫽뫾뫿뮀뮁뮂뮃뮄뮅뮆뮇뮈뮉뮊뮋뮌뮍뮎뮏뮐뮑뮒뮓뮔뮕뮖뮗뮘뮙뮚뮛뮜뮝뮞뮟뮠뮡뮢뮣뮤뮥뮦뮧뮨뮩뮪뮫뮬뮭뮮뮯뮰뮱뮲뮳뮴뮵뮶뮷뮸뮹뮺뮻뮼뮽뮾뮿므믁믂믃믄믅믆믇믈믉믊믋믌믍믎믏믐믑믒믓믔믕믖믗믘믙믚믛믜믝믞믟믠믡믢믣믤믥믦믧믨믩믪믫믬믭믮믯믰믱믲믳믴믵믶믷미믹믺믻민믽믾믿벀벁벂벃버벅벆벇번벉벊벋벌벍벎벏벐벑벒벓범법벖벗벘벙벚벛벜벝벞벟베벡벢벣벤벥벦벧벨벩벪벫벬벭벮벯벰벱벲벳벴벵벶벷벸벹벺벻벼벽벾벿변볁볂볃별볅볆볇볈볉볊볋볌볍볎볏볐병볒볓볔볕볖볗볘볙볚볛볜볝볞볟볠볡볢볣볤볥볦볧볨볩볪볫볬볭볮볯볰볱볲볳보복볶볷본볹볺볻볼볽볾볿부북붂붃분붅붆붇불붉붊붋붌붍붎붏붐붑붒붓붔붕붖붗붘붙붚붛붜붝붞붟붠붡붢붣붤붥붦붧붨붩붪붫붬붭붮붯붰붱붲붳붴붵붶붷붸붹붺붻붼붽붾붿뷀뷁뷂뷃뷄뷅뷆뷇뷈뷉뷊뷋뷌뷍뷎뷏뷐뷑뷒뷓뷔뷕뷖뷗뷘뷙뷚뷛뷜뷝뷞뷟뷠뷡뷢뷣뷤뷥뷦뷧뷨뷩뷪뷫뷬뷭뷮뷯뷰뷱뷲뷳뷴뷵뷶뷷뷸뷹뷺뷻뷼뷽뷾뷿뺀뺁뺂뺃뺄뺅뺆뺇뺈뺉뺊뺋뺌뺍뺎뺏뺐뺑뺒뺓뺔뺕뺖뺗뺘뺙뺚뺛뺜뺝뺞뺟뺠뺡뺢뺣뺤뺥뺦뺧뺨뺩뺪뺫뺬뺭뺮뺯뺰뺱뺲뺳뺴뺵뺶뺷뺸뺹뺺뺻뺼뺽뺾뺿뻀뻁뻂뻃뻄뻅뻆뻇뻈뻉뻊뻋뻌뻍뻎뻏뻐뻑뻒뻓뻔뻕뻖뻗뻘뻙뻚뻛뻜뻝뻞뻟뻠뻡뻢뻣뻤뻥뻦뻧뻨뻩뻪뻫뻬뻭뻮뻯뻰뻱뻲뻳뻴뻵뻶뻷뻸뻹뻺뻻뻼뻽뻾뻿뾀뾁뾂뾃뾄뾅뾆뾇뾈뾉뾊뾋뾌뾍뾎뾏뾐뾑뾒뾓뾔뾕뾖뾗뾘뾙뾚뾛뾜뾝뾞뾟뾠뾡뾢뾣뾤뾥뾦뾧뾨뾩뾪뾫뾬뾭뾮뾯뾰뾱뾲뾳뾴뾵뾶뾷뾸뾹뾺뾻뾼뾽뾾뾿뿀뿁뿂뿃뿄뿅뿆뿇뿈뿉뿊뿋뿌뿍뿎뿏뿐뿑뿒뿓뿔뿕뿖뿗뿘뿙뿚뿛뿜뿝뿞뿟뿠뿡뿢뿣뿤뿥뿦뿧뿨뿩뿪뿫뿬뿭뿮뿯뿰뿱뿲뿳뿴뿵뿶뿷뿸뿹뿺뿻뿼뿽뿾뿿삀삁삂삃삄삅삆삇삈삉삊삋삌삍삎삏삐삑삒삓삔삕삖삗삘삙삚삛삜삝삞삟삠삡삢삣삤삥삦삧삨삩삪삫사삭삮삯산삱삲삳살삵삶삷삸삹삺삻삼삽삾삿샀상샂샃샄샅샆샇새색샊샋샌샍샎샏샐샑샒샓샔샕샖샗샘샙샚샛샜생샞샟샠샡샢샣샤샥샦샧샨샩샪샫샬샭샮샯샰샱샲샳샴샵샶샷샸샹샺샻샼샽샾샿솀솁솂솃솄솅솆솇솈솉솊솋소속솎솏손솑솒솓솔솕솖솗솘솙솚솛솜솝솞솟솠송솢솣솤솥솦솧솨솩솪솫솬솭솮솯솰솱솲솳솴솵솶솷솸솹솺솻솼솽솾솿쇀쇁쇂쇃쇄쇅쇆쇇쇈쇉쇊쇋쇌쇍쇎쇏쇐쇑쇒쇓쇔쇕쇖쇗쇘쇙쇚쇛쇜쇝쇞쇟쇠쇡쇢쇣쇤쇥쇦쇧쇨쇩쇪쇫쇬쇭쇮쇯쇰쇱쇲쇳쇴쇵쇶쇷쇸쇹쇺쇻쇼쇽쇾쇿슀슁슂슃슄슅슆슇슈슉슊슋슌슍슎슏슐슑슒슓슔슕슖슗슘슙슚슛슜슝슞슟슠슡슢슣스슥슦슧슨슩슪슫슬슭슮슯슰슱슲슳슴습슶슷슸승슺슻슼슽슾슿싀싁싂싃싄싅싆싇싈싉싊싋싌싍싎싏싐싑싒싓싔싕싖싗싘싙싚싛시식싞싟신싡싢싣실싥싦싧싨싩싪싫심십싮싯싰싱싲싳싴싵싶싷싸싹싺싻싼싽싾싿쎀쎁쎂쎃쎄쎅쎆쎇쎈쎉쎊쎋쎌쎍쎎쎏쎐쎑쎒쎓쎔쎕쎖쎗쎘쎙쎚쎛쎜쎝쎞쎟쎠쎡쎢쎣쎤쎥쎦쎧쎨쎩쎪쎫쎬쎭쎮쎯쎰쎱쎲쎳쎴쎵쎶쎷쎸쎹쎺쎻쎼쎽쎾쎿쏀쏁쏂쏃쏄쏅쏆쏇쏈쏉쏊쏋쏌쏍쏎쏏쏐쏑쏒쏓쏔쏕쏖쏗쏘쏙쏚쏛쏜쏝쏞쏟쏠쏡쏢쏣쏤쏥쏦쏧쏨쏩쏪쏫쏬쏭쏮쏯쏰쏱쏲쏳쏴쏵쏶쏷쏸쏹쏺쏻쏼쏽쏾쏿쒀쒁쒂쒃쒄쒅쒆쒇쒈쒉쒊쒋쒌쒍쒎쒏쒐쒑쒒쒓쒔쒕쒖쒗쒘쒙쒚쒛쒜쒝쒞쒟쒠쒡쒢쒣쒤쒥쒦쒧쒨쒩쒪쒫쒬쒭쒮쒯쒰쒱쒲쒳쒴쒵쒶쒷쒸쒹쒺쒻쒼쒽쒾쒿쓀쓁쓂쓃쓄쓅쓆쓇쓈쓉쓊쓋쓌쓍쓎쓏쓐쓑쓒쓓쓔쓕쓖쓗쓘쓙쓚쓛쓜쓝쓞쓟쓠쓡쓢쓣쓤쓥쓦쓧쓨쓩쓪쓫쓬쓭쓮쓯쓰쓱쓲쓳쓴쓵쓶쓷쓸쓹쓺쓻쓼쓽쓾쓿얀얁얂얃얄얅얆얇얈얉얊얋얌얍얎얏얐양얒얓얔얕얖얗얘얙얚얛얜얝얞얟얠얡얢얣얤얥얦얧얨얩얪얫얬얭얮얯얰얱얲얳어억얶얷언얹얺얻얼얽얾얿엀엁엂엃엄업없엇었엉엊엋엌엍엎엏에엑엒엓엔엕엖엗엘엙엚엛엜엝엞엟엠엡엢엣엤엥엦엧엨엩엪엫여역엮엯연엱엲엳열엵엶엷엸엹엺엻염엽엾엿욀욁욂욃욄욅욆욇욈욉욊욋욌욍욎욏욐욑욒욓요욕욖욗욘욙욚욛욜욝욞욟욠욡욢욣욤욥욦욧욨용욪욫욬욭욮욯우욱욲욳운욵욶욷울욹욺욻욼욽욾욿움웁웂웃웄웅웆웇웈웉웊웋워웍웎웏원웑웒웓월웕웖웗웘웙웚웛웜웝웞웟웠웡웢웣웤웥웦웧웨웩웪웫웬웭웮웯웰웱웲웳웴웵웶웷웸웹웺웻웼웽웾웿잀잁잂잃임입잆잇있잉잊잋잌잍잎잏자작잒잓잔잕잖잗잘잙잚잛잜잝잞잟잠잡잢잣잤장잦잧잨잩잪잫재잭잮잯잰잱잲잳잴잵잶잷잸잹잺잻잼잽잾잿쟀쟁쟂쟃쟄쟅쟆쟇쟈쟉쟊쟋쟌쟍쟎쟏쟐쟑쟒쟓쟔쟕쟖쟗쟘쟙쟚쟛쟜쟝쟞쟟쟠쟡쟢쟣쟤쟥쟦쟧쟨쟩쟪쟫쟬쟭쟮쟯쟰쟱쟲쟳쟴쟵쟶쟷쟸쟹쟺쟻쟼쟽쟾쟿좀좁좂좃좄종좆좇좈좉좊좋좌좍좎좏좐좑좒좓좔좕좖좗좘좙좚좛좜좝좞좟좠좡좢좣좤좥좦좧좨좩좪좫좬좭좮좯좰좱좲좳좴좵좶좷좸좹좺좻좼좽좾좿죀죁죂죃죄죅죆죇죈죉죊죋죌죍죎죏죐죑죒죓죔죕죖죗죘죙죚죛죜죝죞죟죠죡죢죣죤죥죦죧죨죩죪죫죬죭죮죯죰죱죲죳죴죵죶죷죸죹죺죻주죽죾죿즀즁즂즃즄즅즆즇즈즉즊즋즌즍즎즏즐즑즒즓즔즕즖즗즘즙즚즛즜증즞즟즠즡즢즣즤즥즦즧즨즩즪즫즬즭즮즯즰즱즲즳즴즵즶즷즸즹즺즻즼즽즾즿지직짂짃진짅짆짇질짉짊짋짌짍짎짏짐집짒짓짔징짖짗짘짙짚짛짜짝짞짟짠짡짢짣짤짥짦짧짨짩짪짫짬짭짮짯짰짱짲짳짴짵짶짷째짹짺짻짼짽짾짿쪀쪁쪂쪃쪄쪅쪆쪇쪈쪉쪊쪋쪌쪍쪎쪏쪐쪑쪒쪓쪔쪕쪖쪗쪘쪙쪚쪛쪜쪝쪞쪟쪠쪡쪢쪣쪤쪥쪦쪧쪨쪩쪪쪫쪬쪭쪮쪯쪰쪱쪲쪳쪴쪵쪶쪷쪸쪹쪺쪻쪼쪽쪾쪿쫀쫁쫂쫃쫄쫅쫆쫇쫈쫉쫊쫋쫌쫍쫎쫏쫐쫑쫒쫓쫔쫕쫖쫗쫘쫙쫚쫛쫜쫝쫞쫟쫠쫡쫢쫣쫤쫥쫦쫧쫨쫩쫪쫫쫬쫭쫮쫯쫰쫱쫲쫳쫴쫵쫶쫷쫸쫹쫺쫻쫼쫽쫾쫿쮀쮁쮂쮃쮄쮅쮆쮇쮈쮉쮊쮋쮌쮍쮎쮏쮐쮑쮒쮓쮔쮕쮖쮗쮘쮙쮚쮛쮜쮝쮞쮟쮠쮡쮢쮣쮤쮥쮦쮧쮨쮩쮪쮫쮬쮭쮮쮯쮰쮱쮲쮳쮴쮵쮶쮷쮸쮹쮺쮻쮼쮽쮾쮿쯀쯁쯂쯃쯄쯅쯆쯇쯈쯉쯊쯋쯌쯍쯎쯏쯐쯑쯒쯓쯔쯕쯖쯗쯘쯙쯚쯛쯜쯝쯞쯟쯠쯡쯢쯣쯤쯥쯦쯧쯨쯩쯪쯫쯬쯭쯮쯯쯰쯱쯲쯳쯴쯵쯶쯷쯸쯹쯺쯻쯼쯽쯾쯿첀첁첂첃첄첅첆첇첈첉첊첋첌첍첎첏첐첑첒첓첔첕첖첗처척첚첛천첝첞첟철첡첢첣첤첥첦첧첨첩첪첫첬청첮첯첰첱첲첳체첵첶첷첸첹첺첻첼첽첾첿쳀쳁쳂쳃쳄쳅쳆쳇쳈쳉쳊쳋쳌쳍쳎쳏쳐쳑쳒쳓쳔쳕쳖쳗쳘쳙쳚쳛쳜쳝쳞쳟쳠쳡쳢쳣쳤쳥쳦쳧쳨쳩쳪쳫쳬쳭쳮쳯쳰쳱쳲쳳쳴쳵쳶쳷쳸쳹쳺쳻쳼쳽쳾쳿춀춁춂춃춄춅춆춇춈춉춊춋춌춍춎춏춐춑춒춓추축춖춗춘춙춚춛출춝춞춟춠춡춢춣춤춥춦춧춨충춪춫춬춭춮춯춰춱춲춳춴춵춶춷춸춹춺춻춼춽춾춿췀췁췂췃췄췅췆췇췈췉췊췋췌췍췎췏췐췑췒췓췔췕췖췗췘췙췚췛췜췝췞췟췠췡췢췣췤췥췦췧취췩췪췫췬췭췮췯췰췱췲췳췴췵췶췷췸췹췺췻췼췽췾췿캀캁캂캃캄캅캆캇캈캉캊캋캌캍캎캏캐캑캒캓캔캕캖캗캘캙캚캛캜캝캞캟캠캡캢캣캤캥캦캧캨캩캪캫캬캭캮캯캰캱캲캳캴캵캶캷캸캹캺캻캼캽캾캿컀컁컂컃컄컅컆컇컈컉컊컋컌컍컎컏컐컑컒컓컔컕컖컗컘컙컚컛컜컝컞컟컠컡컢컣커컥컦컧컨컩컪컫컬컭컮컯컰컱컲컳컴컵컶컷컸컹컺컻컼컽컾컿쾀쾁쾂쾃쾄쾅쾆쾇쾈쾉쾊쾋쾌쾍쾎쾏쾐쾑쾒쾓쾔쾕쾖쾗쾘쾙쾚쾛쾜쾝쾞쾟쾠쾡쾢쾣쾤쾥쾦쾧쾨쾩쾪쾫쾬쾭쾮쾯쾰쾱쾲쾳쾴쾵쾶쾷쾸쾹쾺쾻쾼쾽쾾쾿쿀쿁쿂쿃쿄쿅쿆쿇쿈쿉쿊쿋쿌쿍쿎쿏쿐쿑쿒쿓쿔쿕쿖쿗쿘쿙쿚쿛쿜쿝쿞쿟쿠쿡쿢쿣쿤쿥쿦쿧쿨쿩쿪쿫쿬쿭쿮쿯쿰쿱쿲쿳쿴쿵쿶쿷쿸쿹쿺쿻쿼쿽쿾쿿킀킁킂킃킄킅킆킇킈킉킊킋킌킍킎킏킐킑킒킓킔킕킖킗킘킙킚킛킜킝킞킟킠킡킢킣키킥킦킧킨킩킪킫킬킭킮킯킰킱킲킳킴킵킶킷킸킹킺킻킼킽킾킿타탁탂탃탄탅탆탇탈탉탊탋탌탍탎탏탐탑탒탓탔탕탖탗탘탙탚탛태택탞탟탠탡탢탣탤탥탦탧탨탩탪탫탬탭탮탯탰탱탲탳탴탵탶탷탸탹탺탻탼탽탾탿톀톁톂톃톄톅톆톇톈톉톊톋톌톍톎톏톐톑톒톓톔톕톖톗톘톙톚톛톜톝톞톟토톡톢톣톤톥톦톧톨톩톪톫톬톭톮톯톰톱톲톳톴통톶톷톸톹톺톻톼톽톾톿퇀퇁퇂퇃퇄퇅퇆퇇퇈퇉퇊퇋퇌퇍퇎퇏퇐퇑퇒퇓퇔퇕퇖퇗퇘퇙퇚퇛퇜퇝퇞퇟퇠퇡퇢퇣퇤퇥퇦퇧퇨퇩퇪퇫퇬퇭퇮퇯퇰퇱퇲퇳퇴퇵퇶퇷퇸퇹퇺퇻퇼퇽퇾퇿튀튁튂튃튄튅튆튇튈튉튊튋튌튍튎튏튐튑튒튓튔튕튖튗튘튙튚튛튜튝튞튟튠튡튢튣튤튥튦튧튨튩튪튫튬튭튮튯튰튱튲튳튴튵튶튷트특튺튻튼튽튾튿틀틁틂틃틄틅틆틇틈틉틊틋틌틍틎틏틐틑틒틓틔틕틖틗틘틙틚틛틜틝틞틟틠틡틢틣틤틥틦틧틨틩틪틫틬틭틮틯티틱틲틳틴틵틶틷틸틹틺틻틼틽틾틿펀펁펂펃펄펅펆펇펈펉펊펋펌펍펎펏펐펑펒펓펔펕펖펗페펙펚펛펜펝펞펟펠펡펢펣펤펥펦펧펨펩펪펫펬펭펮펯펰펱펲펳펴펵펶펷편펹펺펻펼펽펾펿폀폁폂폃폄폅폆폇폈평폊폋폌폍폎폏폐폑폒폓폔폕폖폗폘폙폚폛폜폝폞폟폠폡폢폣폤폥폦폧폨폩폪폫포폭폮폯폰폱폲폳폴폵폶폷폸폹폺폻폼폽폾폿풀풁풂풃풄풅풆풇품풉풊풋풌풍풎풏풐풑풒풓풔풕풖풗풘풙풚풛풜풝풞풟풠풡풢풣풤풥풦풧풨풩풪풫풬풭풮풯풰풱풲풳풴풵풶풷풸풹풺풻풼풽풾풿퓀퓁퓂퓃퓄퓅퓆퓇퓈퓉퓊퓋퓌퓍퓎퓏퓐퓑퓒퓓퓔퓕퓖퓗퓘퓙퓚퓛퓜퓝퓞퓟퓠퓡퓢퓣퓤퓥퓦퓧퓨퓩퓪퓫퓬퓭퓮퓯퓰퓱퓲퓳퓴퓵퓶퓷퓸퓹퓺퓻퓼퓽퓾퓿햀햁햂햃햄햅햆햇했행햊햋햌햍햎햏햐햑햒햓햔햕햖햗햘햙햚햛햜햝햞햟햠햡햢햣햤향햦햧햨햩햪햫햬햭햮햯햰햱햲햳햴햵햶햷햸햹햺햻햼햽햾햿헀헁헂헃헄헅헆헇허헉헊헋헌헍헎헏헐헑헒헓헔헕헖헗험헙헚헛헜헝헞헟헠헡헢헣헤헥헦헧헨헩헪헫헬헭헮헯헰헱헲헳헴헵헶헷헸헹헺헻헼헽헾헿횀횁횂횃횄횅횆횇횈횉횊횋회획횎횏횐횑횒횓횔횕횖횗횘횙횚횛횜횝횞횟횠횡횢횣횤횥횦횧효횩횪횫횬횭횮횯횰횱횲횳횴횵횶횷횸횹횺횻횼횽횾횿훀훁훂훃후훅훆훇훈훉훊훋훌훍훎훏훐훑훒훓훔훕훖훗훘훙훚훛훜훝훞훟훠훡훢훣훤훥훦훧훨훩훪훫훬훭훮훯훰훱훲훳훴훵훶훷훸훹훺훻훼훽훾훿힀힁힂힃힄힅힆힇히힉힊힋힌힍힎힏힐힑힒힓힔힕힖힗힘힙힚힛힜힝힞힟힠힡힢힣힤힥힦힧힨힩힪힫힬힭힮힯ힰힱힲힳힴힵힶힷힸힹힺힻힼힽힾힿퟀퟁퟂퟃퟄퟅퟆ퟇퟈퟉퟊ퟋퟌퟍퟎퟏퟐퟑퟒퟓퟔퟕퟖퟗퟘퟙퟚퟛퟜퟝퟞퟟퟠퟡퟢퟣퟤퟥퟦퟧퟨퟩퟪퟫퟬퟭퟮퟯퟰퟱퟲퟳퟴퟵퟶퟷퟸퟹퟺퟻ퟼퟽퟾퟿呂女廬旅濾礪閭驪麗黎力曆歷轢年憐戀撚漣煉璉秊練聯輦蓮連鍊列劣咽烈裂說廉念捻殮簾獵令囹寧嶺怜玲瑩羚聆鈴零靈領例禮醴隸惡了僚寮尿料樂燎療蓼遼龍暈阮劉杻柳流溜琉留硫紐類六戮陸倫崙淪輪律慄栗率隆利吏履易李梨泥理痢罹裏裡里離匿溺吝燐璘藺隣鱗麟林淋臨立笠粒狀炙識什茶刺婢嬨廒廙彩徭惘慎愈憎慠懲戴揄搜摒敖晴朗望杖歹殺流滛滋漢瀞煮瞧爵犯猪瑱甆画瘝瘟益盛直睊着磌窱節类絛練缾者荒華蝹襁覆視調諸請謁諾諭謹變贈輸遲醙鉶陼難靖韛響頋頻鬒龜𢡊𢡄𣏕㮝䀘䀹𥉉𥳐𧻓齃龎﫚﫛﫜﫝﫞﫟﫠﫡﫢﫣﫤﫥﫦﫧﫨﫩﫪﫫﫬﫭﫮﫯﫰﫱﫲﫳﫴﫵﫶﫷﫸﫹﫺﫻﫼﫽﫾﫿ﮀﮁﮂﮃﮄﮅﮆﮇﮈﮉﮊﮋﮌﮍﮎﮏﮐﮑﮒﮓﮔﮕﮖﮗﮘﮙﮚﮛﮜﮝﮞﮟﮠﮡﮢﮣﮤﮥﮦﮧﮨﮩﮪﮫﮬﮭﮮﮯﮰﮱ﮲﮳﮴﮵﮶﮷﮸﮹﮺﮻﮼﮽﮾﮿﯀﯁﯂﯃﯄﯅﯆﯇﯈﯉﯊﯋﯌﯍﯎﯏﯐﯑﯒ﯓﯔﯕﯖﯗﯘﯙﯚﯛﯜﯝﯞﯟﯠﯡﯢﯣﯤﯥﯦﯧﯨﯩﯪﯫﯬﯭﯮﯯﯰﯱﯲﯳﯴﯵﯶﯷﯸﯹﯺﯻﯼﯽﯾﯿﲀﲁﲂﲃﲄﲅﲆﲇﲈﲉﲊﲋﲌﲍﲎﲏﲐﲑﲒﲓﲔﲕﲖﲗﲘﲙﲚﲛﲜﲝﲞﲟﲠﲡﲢﲣﲤﲥﲦﲧﲨﲩﲪﲫﲬﲭﲮﲯﲰﲱﲲﲳﲴﲵﲶﲷﲸﲹﲺﲻﲼﲽﲾﲿﳀﳁﳂﳃﳄﳅﳆﳇﳈﳉﳊﳋﳌﳍﳎﳏﳐﳑﳒﳓﳔﳕﳖﳗﳘﳙﳚﳛﳜﳝﳞﳟﳠﳡﳢﳣﳤﳥﳦﳧﳨﳩﳪﳫﳬﳭﳮﳯﳰﳱﳲﳳﳴﳵﳶﳷﳸﳹﳺﳻﳼﳽﳾﳿﶀﶁﶂﶃﶄﶅﶆﶇﶈﶉﶊﶋﶌﶍﶎﶏ﶐﶑ﶒﶓﶔﶕﶖﶗﶘﶙﶚﶛﶜﶝﶞﶟﶠﶡﶢﶣﶤﶥﶦﶧﶨﶩﶪﶫﶬﶭﶮﶯﶰﶱﶲﶳﶴﶵﶶﶷﶸﶹﶺﶻﶼﶽﶾﶿﷀﷁﷂﷃﷄﷅﷆﷇ﷈﷉﷊﷋﷌﷍﷎﷏﷐﷑﷒﷓﷔﷕﷖﷗﷘﷙﷚﷛﷜﷝﷞﷟﷠﷡﷢﷣﷤﷥﷦﷧﷨﷩﷪﷫﷬﷭﷮﷯ﷰﷱﷲﷳﷴﷵﷶﷷﷸﷹﷺﷻ﷼﷽﷾﷿ﺀﺁﺂﺃﺄﺅﺆﺇﺈﺉﺊﺋﺌﺍﺎﺏﺐﺑﺒﺓﺔﺕﺖﺗﺘﺙﺚﺛﺜﺝﺞﺟﺠﺡﺢﺣﺤﺥﺦﺧﺨﺩﺪﺫﺬﺭﺮﺯﺰﺱﺲﺳﺴﺵﺶﺷﺸﺹﺺﺻﺼﺽﺾﺿﻀﻁﻂﻃﻄﻅﻆﻇﻈﻉﻊﻋﻌﻍﻎﻏﻐﻑﻒﻓﻔﻕﻖﻗﻘﻙﻚﻛﻜﻝﻞﻟﻠﻡﻢﻣﻤﻥﻦﻧﻨﻩﻪﻫﻬﻭﻮﻯﻰﻱﻲﻳﻴﻵﻶﻷﻸﻹﻺﻻﻼ﻽﻾﻿ﾀﾁﾂﾃﾄﾅﾆﾇﾈﾉﾊﾋﾌﾍﾎﾏﾐﾑﾒﾓﾔﾕﾖﾗﾘﾙﾚﾛﾜﾝﾞﾟﾠﾡﾢﾣﾤﾥﾦﾧﾨﾩﾪﾫﾬﾭﾮﾯﾰﾱﾲﾳﾴﾵﾶﾷﾸﾹﾺﾻﾼﾽﾾ﾿￀￁ￂￃￄￅￆￇ￈￉ￊￋￌￍￎￏ￐￑ￒￓￔￕￖￗ￘￙ￚￛￜ￝￞￟￠￡￢￣￤￥￦￧￨￩￪￫￬￭￮￯￰￱￲￳￴￵￶￷￸￹￺￻￼�￾￿"

\* the code points of U+0001 to U+007F
CharCodes ==
    [c \in {SubSeq(Controls, n, n) : n \in 1..Len(Controls)} |->
        CHOOSE n \in 1..Len(Controls) : SubSeq(Controls, n, n) = c]
    @@ [c \in {SubSeq(Ascii, i, i) : i \in 1..Len(Ascii)} |->
        LET n == CHOOSE i \in 1..Len(Ascii) : SubSeq(Ascii, i, i) = c
        IN  IF n <= 64 THEN 31 + n ELSE 32 + n]

\* char::is_ascii, as a set
AsciiChars ==
    {SubSeq(Controls \o Ascii, n, n) : n \in 1..(Len(Controls) + Len(Ascii))}

\* the code point of the n-th character of HighChars
high_code_at(n) ==
    256 * (IF n <= 27648 THEN (n - 1) \div 128 ELSE (n - 1) \div 128 + 8)
    + 128 + ((n - 1) % 128)

\* the code point of a character above U+007F
high_code(c) ==
    high_code_at(CHOOSE n \in 1..Len(HighChars) : SubSeq(HighChars, n, n) = c)

\* char as u32
char_code(c) == IF c \in AsciiChars THEN CharCodes[c] ELSE high_code(c)

\* char::from_u32, where the character can be written
code_char(n) ==
    CASE n \in 1..31 -> SubSeq(Controls, n, n)
      [] n \in 32..95 -> SubSeq(Ascii, n - 31, n - 31)
      [] n \in 97..127 -> SubSeq(Ascii, n - 32, n - 32)
      [] n \in 128..55295 /\ n % 256 >= 128 ->
            SubSeq(HighChars, 128 * (n \div 256) + ((n % 256) - 127),
                   128 * (n \div 256) + ((n % 256) - 127))
      [] n \in 57344..65535 /\ n % 256 >= 128 ->
            SubSeq(HighChars, 128 * (n \div 256 - 8) + ((n % 256) - 127),
                   128 * (n \div 256 - 8) + ((n % 256) - 127))

\* char::len_utf8
len_utf8(c) ==
    IF c \in AsciiChars THEN 1 ELSE IF high_code(c) < 2048 THEN 2 ELSE 3

\* whether n lies in one of the ranges <<first, last>> of T
in_ranges(n, T) == \E r \in T : r[1] <= n /\ n <= r[2]

\* the digit of value n < 16, as fmt::LowerHex and serde_json write it
hex_digit(n) == SubSeq("0123456789abcdef", n + 1, n + 1)

\* fmt::LowerHex of a u32
RECURSIVE to_hex(_)
to_hex(n) ==
    IF n < 16 THEN hex_digit(n) ELSE to_hex(n \div 16) \o hex_digit(n % 16)

---------------------------------------------------------------------------
\* Strings

\* the code points that Unicode 17.0 assigns (a general category other than
\* Cn, and the noncharacters).  The tables of case below are those of that
\* version, the one of the std of rustc 1.95; of a code point that it leaves
\* unassigned, to which a later version may give a case, they hold nothing,
\* and the lower case of a text that holds one has no value here.
Assigned(n) ==
    n <= 887 \/
    in_ranges(n, {<<890, 895>>, <<900, 906>>, <<908, 908>>, <<910, 929>>,
                 <<931, 1327>>, <<1329, 1366>>, <<1369, 1418>>,
                 <<1421, 1423>>, <<1425, 1479>>, <<1488, 1514>>,
                 <<1519, 1524>>, <<1536, 1805>>, <<1807, 1866>>,
                 <<1869, 1969>>, <<1984, 2042>>, <<2045, 2093>>,
                 <<2096, 2110>>, <<2112, 2139>>, <<2142, 2142>>,
                 <<2144, 2154>>, <<2160, 2193>>, <<2199, 2435>>,
                 <<2437, 2444>>, <<2447, 2448>>, <<2451, 2472>>,
                 <<2474, 2480>>, <<2482, 2482>>, <<2486, 2489>>,
                 <<2492, 2500>>, <<2503, 2504>>, <<2507, 2510>>,
                 <<2519, 2519>>, <<2524, 2525>>, <<2527, 2531>>,
                 <<2534, 2558>>, <<2561, 2563>>, <<2565, 2570>>,
                 <<2575, 2576>>, <<2579, 2600>>, <<2602, 2608>>,
                 <<2610, 2611>>, <<2613, 2614>>, <<2616, 2617>>,
                 <<2620, 2620>>, <<2622, 2626>>, <<2631, 2632>>,
                 <<2635, 2637>>, <<2641, 2641>>, <<2649, 2652>>,
                 <<2654, 2654>>, <<2662, 2678>>, <<2689, 2691>>,
                 <<2693, 2701>>, <<2703, 2705>>, <<2707, 2728>>,
                 <<2730, 2736>>, <<2738, 2739>>, <<2741, 2745>>,
                 <<2748, 2757>>, <<2759, 2761>>, <<2763, 2765>>,
                 <<2768, 2768>>, <<2784, 2787>>, <<2790, 2801>>,
                 <<2809, 2815>>, <<2817, 2819>>, <<2821, 2828>>,
                 <<2831, 2832>>, <<2835, 2856>>, <<2858, 2864>>,
                 <<2866, 2867>>, <<2869, 2873>>, <<2876, 2884>>,
                 <<2887, 2888>>, <<2891, 2893>>, <<2901, 2903>>,
                 <<2908, 2909>>, <<2911, 2915>>, <<2918, 2935>>,
                 <<2946, 2947>>, <<2949, 2954>>, <<2958, 2960>>,
                 <<2962, 2965>>, <<2969, 2970>>, <<2972, 2972>>,
                 <<2974, 2975>>, <<2979, 2980>>, <<2984, 2986>>,
                 <<2990, 3001>>, <<3006, 3010>>, <<3014, 3016>>,
                 <<3018, 3021>>, <<3024, 3024>>, <<3031, 3031>>,
                 <<3046, 3066>>, <<3072, 3084>>, <<3086, 3088>>,
                 <<3090, 3112>>, <<3114, 3129>>, <<3132, 3140>>,
                 <<3142, 3144>>, <<3146, 3149>>, <<3157, 3158>>,
                 <<3160, 3162>>, <<3164, 3165>>, <<3168, 3171>>,
                 <<3174, 3183>>, <<3191, 3212>>, <<3214, 3216>>,
                 <<3218, 3240>>, <<3242, 3251>>, <<3253, 3257>>,
                 <<3260, 3268>>, <<3270, 3272>>, <<3274, 3277>>,
                 <<3285, 3286>>, <<3292, 3294>>, <<3296, 3299>>,
                 <<3302, 3311>>, <<3313, 3315>>, <<3328, 3340>>,
                 <<3342, 3344>>, <<3346, 3396>>, <<3398, 3400>>,
                 <<3402, 3407>>, <<3412, 3427>>, <<3430, 3455>>,
                 <<3457, 3459>>, <<3461, 3478>>, <<3482, 3505>>,
                 <<3507, 3515>>, <<3517, 3517>>, <<3520, 3526>>,
                 <<3530, 3530>>, <<3535, 3540>>, <<3542, 3542>>,
                 <<3544, 3551>>, <<3558, 3567>>, <<3570, 3572>>,
                 <<3585, 3642>>, <<3647, 3675>>, <<3713, 3714>>,
                 <<3716, 3716>>, <<3718, 3722>>, <<3724, 3747>>,
                 <<3749, 3749>>, <<3751, 3773>>, <<3776, 3780>>,
                 <<3782, 3782>>, <<3784, 3790>>, <<3792, 3801>>,
                 <<3804, 3807>>, <<3840, 3911>>, <<3913, 3948>>,
                 <<3953, 3991>>, <<3993, 4028>>, <<4030, 4044>>,
                 <<4046, 4058>>, <<4096, 4293>>, <<4295, 4295>>,
                 <<4301, 4301>>, <<4304, 4680>>, <<4682, 4685>>,
                 <<4688, 4694>>, <<4696, 4696>>, <<4698, 4701>>,
                 <<4704, 4744>>, <<4746, 4749>>, <<4752, 4784>>,
                 <<4786, 4789>>, <<4792, 4798>>, <<4800, 4800>>,
                 <<4802, 4805>>, <<4808, 4822>>, <<4824, 4880>>,
                 <<4882, 4885>>, <<4888, 4954>>, <<4957, 4988>>,
                 <<4992, 5017>>, <<5024, 5109>>, <<5112, 5117>>,
                 <<5120, 5788>>, <<5792, 5880>>, <<5888, 5909>>,
                 <<5919, 5942>>, <<5952, 5971>>, <<5984, 5996>>,
                 <<5998, 6000>>, <<6002, 6003>>, <<6016, 6109>>,
                 <<6112, 6121>>, <<6128, 6137>>, <<6144, 6169>>,
                 <<6176, 6264>>, <<6272, 6314>>, <<6320, 6389>>,
                 <<6400, 6430>>, <<6432, 6443>>, <<6448, 6459>>,
                 <<6464, 6464>>, <<6468, 6509>>, <<6512, 6516>>,
                 <<6528, 6571>>, <<6576, 6601>>, <<6608, 6618>>,
                 <<6622, 6683>>, <<6686, 6750>>, <<6752, 6780>>,
                 <<6783, 6793>>, <<6800, 6809>>, <<6816, 6829>>,
                 <<6832, 6877>>, <<6880, 6891>>, <<6912, 6988>>,
                 <<6990, 7155>>, <<7164, 7223>>, <<7227, 7241>>,
                 <<7245, 7306>>, <<7312, 7354>>, <<7357, 7367>>,
                 <<7376, 7418>>, <<7424, 7957>>, <<7960, 7965>>,
                 <<7968, 8005>>, <<8008, 8013>>, <<8016, 8023>>,
                 <<8025, 8025>>, <<8027, 8027>>, <<8029, 8029>>,
                 <<8031, 8061>>, <<8064, 8116>>, <<8118, 8132>>,
                 <<8134, 8147>>, <<8150, 8155>>, <<8157, 8175>>,
                 <<8178, 8180>>, <<8182, 8190>>, <<8192, 8292>>,
                 <<8294, 8305>>, <<8308, 8334>>, <<8336, 8348>>,
                 <<8352, 8385>>, <<8400, 8432>>, <<8448, 8587>>,
                 <<8592, 9257>>, <<9280, 9290>>, <<9312, 11123>>,
                 <<11126, 11507>>, <<11513, 11557>>, <<11559, 11559>>,
                 <<11565, 11565>>, <<11568, 11623>>, <<11631, 11632>>,
                 <<11647, 11670>>, <<11680, 11686>>, <<11688, 11694>>,
                 <<11696, 11702>>, <<11704, 11710>>, <<11712, 11718>>,
                 <<11720, 11726>>, <<11728, 11734>>, <<11736, 11742>>,
                 <<11744, 11869>>, <<11904, 11929>>, <<11931, 12019>>,
                 <<12032, 12245>>, <<12272, 12351>>, <<12353, 12438>>,
                 <<12441, 12543>>, <<12549, 12591>>, <<12593, 12686>>,
                 <<12688, 12773>>, <<12783, 12830>>, <<12832, 42124>>,
                 <<42128, 42182>>, <<42192, 42539>>, <<42560, 42743>>,
                 <<42752, 42972>>, <<42993, 43052>>, <<43056, 43065>>,
                 <<43072, 43127>>, <<43136, 43205>>, <<43214, 43225>>,
                 <<43232, 43347>>, <<43359, 43388>>, <<43392, 43469>>,
                 <<43471, 43481>>, <<43486, 43518>>, <<43520, 43574>>,
                 <<43584, 43597>>, <<43600, 43609>>, <<43612, 43714>>,
                 <<43739, 43766>>, <<43777, 43782>>, <<43785, 43790>>,
                 <<43793, 43798>>, <<43808, 43814>>, <<43816, 43822>>,
                 <<43824, 43883>>, <<43888, 44013>>, <<44016, 44025>>,
                 <<44032, 55203>>, <<55216, 55238>>, <<55243, 55291>>,
                 <<55296, 64109>>, <<64112, 64217>>, <<64256, 64262>>,
                 <<64275, 64279>>, <<64285, 64310>>, <<64312, 64316>>,
                 <<64318, 64318>>, <<64320, 64321>>, <<64323, 64324>>,
                 <<64326, 65049>>, <<65056, 65106>>, <<65108, 65126>>,
                 <<65128, 65131>>, <<65136, 65140>>, <<65142, 65276>>,
                 <<65279, 65279>>, <<65281, 65470>>, <<65474, 65479>>,
                 <<65482, 65487>>, <<65490, 65495>>, <<65498, 65500>>,
                 <<65504, 65510>>, <<65512, 65518>>, <<65529, 65535>>})

\* core::unicode::conversions::to_lower, for the characters whose lower
\* case is one character: the code of the lower case of the character of
\* code n (Basic Multilingual Plane)
to_lower(n) ==
    CASE n \in 65..90 -> n + 32
      [] n \in 192..214 -> n + 32
      [] n \in 216..222 -> n + 32
      [] n \in 256..302 /\ n % 2 = 0 -> n + 1
      [] n \in 306..310 /\ n % 2 = 0 -> n + 1
      [] n \in 313..327 /\ n % 2 = 1 -> n + 1
      [] n \in 330..374 /\ n % 2 = 0 -> n + 1
      [] n = 376 -> n - 121
      [] n \in 377..381 /\ n % 2 = 1 -> n + 1
      [] n = 385 -> n + 210
      [] n \in 386..388 /\ n % 2 = 0 -> n + 1
      [] n = 390 -> n + 206
      [] n = 391 -> n + 1
      [] n \in 393..394 -> n + 205
      [] n = 395 -> n + 1
      [] n = 398 -> n + 79
      [] n = 399 -> n + 202
      [] n = 400 -> n + 203
      [] n = 401 -> n + 1
      [] n = 403 -> n + 205
      [] n = 404 -> n + 207
      [] n = 406 -> n + 211
      [] n = 407 -> n + 209
      [] n = 408 -> n + 1
      [] n = 412 -> n + 211
      [] n = 413 -> n + 213
      [] n = 415 -> n + 214
      [] n \in 416..420 /\ n % 2 = 0 -> n + 1
      [] n = 422 -> n + 218
      [] n = 423 -> n + 1
      [] n = 425 -> n + 218
      [] n = 428 -> n + 1
      [] n = 430 -> n + 218
      [] n = 431 -> n + 1
      [] n \in 433..434 -> n + 217
      [] n \in 435..437 /\ n % 2 = 1 -> n + 1
      [] n = 439 -> n + 219
      [] n = 440 -> n + 1
      [] n = 444 -> n + 1
      [] n = 452 -> n + 2
      [] n = 453 -> n + 1
      [] n = 455 -> n + 2
      [] n = 456 -> n + 1
      [] n = 458 -> n + 2
      [] n \in 459..475 /\ n % 2 = 1 -> n + 1
      [] n \in 478..494 /\ n % 2 = 0 -> n + 1
      [] n = 497 -> n + 2
      [] n \in 498..500 /\ n % 2 = 0 -> n + 1
      [] n = 502 -> n - 97
      [] n = 503 -> n - 56
      [] n \in 504..542 /\ n % 2 = 0 -> n + 1
      [] n = 544 -> n - 130
      [] n \in 546..562 /\ n % 2 = 0 -> n + 1
      [] n = 570 -> n + 10795
      [] n = 571 -> n + 1
      [] n = 573 -> n - 163
      [] n = 574 -> n + 10792
      [] n = 577 -> n + 1
      [] n = 579 -> n - 195
      [] n = 580 -> n + 69
      [] n = 581 -> n + 71
      [] n \in 582..590 /\ n % 2 = 0 -> n + 1
      [] n \in 880..882 /\ n % 2 = 0 -> n + 1
      [] n = 886 -> n + 1
      [] n = 895 -> n + 116
      [] n = 902 -> n + 38
      [] n \in 904..906 -> n + 37
      [] n = 908 -> n + 64
      [] n \in 910..911 -> n + 63
      [] n \in 913..929 -> n + 32
      [] n \in 931..939 -> n + 32
      [] n = 975 -> n + 8
      [] n \in 984..1006 /\ n % 2 = 0 -> n + 1
      [] n = 1012 -> n - 60
      [] n = 1015 -> n + 1
      [] n = 1017 -> n - 7
      [] n = 1018 -> n + 1
      [] n \in 1021..1023 -> n - 130
      [] n \in 1024..1039 -> n + 80
      [] n \in 1040..1071 -> n + 32
      [] n \in 1120..1152 /\ n % 2 = 0 -> n + 1
      [] n \in 1162..1214 /\ n % 2 = 0 -> n + 1
      [] n = 1216 -> n + 15
      [] n \in 1217..1229 /\ n % 2 = 1 -> n + 1
      [] n \in 1232..1326 /\ n % 2 = 0 -> n + 1
      [] n \in 1329..1366 -> n + 48
      [] n \in 4256..4293 -> n + 7264
      [] n = 4295 -> n + 7264
      [] n = 4301 -> n + 7264
      [] n \in 5024..5103 -> n + 38864
      [] n \in 5104..5109 -> n + 8
      [] n = 7305 -> n + 1
      [] n \in 7312..7354 -> n - 3008
      [] n \in 7357..7359 -> n - 3008
      [] n \in 7680..7828 /\ n % 2 = 0 -> n + 1
      [] n = 7838 -> n - 7615
      [] n \in 7840..7934 /\ n % 2 = 0 -> n + 1
      [] n \in 7944..7951 -> n - 8
      [] n \in 7960..7965 -> n - 8
      [] n \in 7976..7983 -> n - 8
      [] n \in 7992..7999 -> n - 8
      [] n \in 8008..8013 -> n - 8
      [] n \in 8025..8031 /\ n % 2 = 1 -> n - 8
      [] n \in 8040..8047 -> n - 8
      [] n \in 8072..8079 -> n - 8
      [] n \in 8088..8095 -> n - 8
      [] n \in 8104..8111 -> n - 8
      [] n \in 8120..8121 -> n - 8
      [] n \in 8122..8123 -> n - 74
      [] n = 8124 -> n - 9
      [] n \in 8136..8139 -> n - 86
      [] n = 8140 -> n - 9
      [] n \in 8152..8153 -> n - 8
      [] n \in 8154..8155 -> n - 100
      [] n \in 8168..8169 -> n - 8
      [] n \in 8170..8171 -> n - 112
      [] n = 8172 -> n - 7
      [] n \in 8184..8185 -> n - 128
      [] n \in 8186..8187 -> n - 126
      [] n = 8188 -> n - 9
      [] n = 8486 -> n - 7517
      [] n = 8490 -> n - 8383
      [] n = 8491 -> n - 8262
      [] n = 8498 -> n + 28
      [] n \in 8544..8559 -> n + 16
      [] n = 8579 -> n + 1
      [] n \in 9398..9423 -> n + 26
      [] n \in 11264..11311 -> n + 48
      [] n = 11360 -> n + 1
      [] n = 11362 -> n - 10743
      [] n = 11363 -> n - 3814
      [] n = 11364 -> n - 10727
      [] n \in 11367..11371 /\ n % 2 = 1 -> n + 1
      [] n = 11373 -> n - 10780
      [] n = 11374 -> n - 10749
      [] n = 11375 -> n - 10783
      [] n = 11376 -> n - 10782
      [] n = 11378 -> n + 1
      [] n = 11381 -> n + 1
      [] n \in 11390..11391 -> n - 10815
      [] n \in 11392..11490 /\ n % 2 = 0 -> n + 1
      [] n \in 11499..11501 /\ n % 2 = 1 -> n + 1
      [] n = 11506 -> n + 1
      [] n \in 42560..42604 /\ n % 2 = 0 -> n + 1
      [] n \in 42624..42650 /\ n % 2 = 0 -> n + 1
      [] n \in 42786..42798 /\ n % 2 = 0 -> n + 1
      [] n \in 42802..42862 /\ n % 2 = 0 -> n + 1
      [] n \in 42873..42875 /\ n % 2 = 1 -> n + 1
      [] n = 42877 -> n - 35332
      [] n \in 42878..42886 /\ n % 2 = 0 -> n + 1
      [] n = 42891 -> n + 1
      [] n = 42893 -> n - 42280
      [] n \in 42896..42898 /\ n % 2 = 0 -> n + 1
      [] n \in 42902..42920 /\ n % 2 = 0 -> n + 1
      [] n = 42922 -> n - 42308
      [] n = 42923 -> n - 42319
      [] n = 42924 -> n - 42315
      [] n = 42925 -> n - 42305
      [] n = 42926 -> n - 42308
      [] n = 42928 -> n - 42258
      [] n = 42929 -> n - 42282
      [] n = 42930 -> n - 42261
      [] n = 42931 -> n + 928
      [] n \in 42932..42946 /\ n % 2 = 0 -> n + 1
      [] n = 42948 -> n - 48
      [] n = 42949 -> n - 42307
      [] n = 42950 -> n - 35384
      [] n \in 42951..42953 /\ n % 2 = 1 -> n + 1
      [] n = 42955 -> n - 42343
      [] n \in 42956..42970 /\ n % 2 = 0 -> n + 1
      [] n = 42972 -> n - 42561
      [] n = 42997 -> n + 1
      [] n \in 65313..65338 -> n + 32
      [] Assigned(n) -> n

\* core::unicode::Cased: the ranges of the code points that have the
\* property Cased
Cased(n) ==
    CASE Assigned(n) ->
    in_ranges(n, {<<65, 90>>, <<97, 122>>, <<170, 170>>, <<181, 181>>,
                 <<186, 186>>, <<192, 214>>, <<216, 246>>, <<248, 442>>,
                 <<444, 447>>, <<452, 659>>, <<662, 696>>, <<704, 705>>,
                 <<736, 740>>, <<837, 837>>, <<880, 883>>, <<886, 887>>,
                 <<890, 893>>, <<895, 895>>, <<902, 902>>, <<904, 906>>,
                 <<908, 908>>, <<910, 929>>, <<931, 1013>>, <<1015, 1153>>,
                 <<1162, 1327>>, <<1329, 1366>>, <<1376, 1416>>,
                 <<4256, 4293>>, <<4295, 4295>>, <<4301, 4301>>,
                 <<4304, 4346>>, <<4348, 4351>>, <<5024, 5109>>,
                 <<5112, 5117>>, <<7296, 7306>>, <<7312, 7354>>,
                 <<7357, 7359>>, <<7424, 7615>>, <<7680, 7957>>,
                 <<7960, 7965>>, <<7968, 8005>>, <<8008, 8013>>,
                 <<8016, 8023>>, <<8025, 8025>>, <<8027, 8027>>,
                 <<8029, 8029>>, <<8031, 8061>>, <<8064, 8116>>,
                 <<8118, 8124>>, <<8126, 8126>>, <<8130, 8132>>,
                 <<8134, 8140>>, <<8144, 8147>>, <<8150, 8155>>,
                 <<8160, 8172>>, <<8178, 8180>>, <<8182, 8188>>,
                 <<8305, 8305>>, <<8319, 8319>>, <<8336, 8348>>,
                 <<8450, 8450>>, <<8455, 8455>>, <<8458, 8467>>,
                 <<8469, 8469>>, <<8473, 8477>>, <<8484, 8484>>,
                 <<8486, 8486>>, <<8488, 8488>>, <<8490, 8493>>,
                 <<8495, 8500>>, <<8505, 8505>>, <<8508, 8511>>,
                 <<8517, 8521>>, <<8526, 8526>>, <<8544, 8575>>,
                 <<8579, 8580>>, <<9398, 9449>>, <<11264, 11492>>,
                 <<11499, 11502>>, <<11506, 11507>>, <<11520, 11557>>,
                 <<11559, 11559>>, <<11565, 11565>>, <<42560, 42605>>,
                 <<42624, 42653>>, <<42786, 42887>>, <<42891, 42894>>,
                 <<42896, 42972>>, <<42993, 42998>>, <<43000, 43002>>,
                 <<43824, 43866>>, <<43868, 43881>>, <<43888, 43967>>,
                 <<64256, 64262>>, <<64275, 64279>>, <<65313, 65338>>,
                 <<65345, 65370>>})

\* core::unicode::Case_Ignorable: the ranges of the code points that have the
\* property Case_Ignorable
Case_Ignorable(n) ==
    CASE Assigned(n) ->
    in_ranges(n, {<<39, 39>>, <<46, 46>>, <<58, 58>>, <<94, 94>>,
                 <<96, 96>>, <<168, 168>>, <<173, 173>>, <<175, 175>>,
                 <<180, 180>>, <<183, 184>>, <<688, 879>>, <<884, 885>>,
                 <<890, 890>>, <<900, 901>>, <<903, 903>>, <<1155, 1161>>,
                 <<1369, 1369>>, <<1375, 1375>>, <<1425, 1469>>,
                 <<1471, 1471>>, <<1473, 1474>>, <<1476, 1477>>,
                 <<1479, 1479>>, <<1524, 1524>>, <<1536, 1541>>,
                 <<1552, 1562>>, <<1564, 1564>>, <<1600, 1600>>,
                 <<1611, 1631>>, <<1648, 1648>>, <<1750, 1757>>,
                 <<1759, 1768>>, <<1770, 1773>>, <<1807, 1807>>,
                 <<1809, 1809>>, <<1840, 1866>>, <<1958, 1968>>,
                 <<2027, 2037>>, <<2042, 2042>>, <<2045, 2045>>,
                 <<2070, 2093>>, <<2137, 2139>>, <<2184, 2184>>,
                 <<2192, 2193>>, <<2199, 2207>>, <<2249, 2306>>,
                 <<2362, 2362>>, <<2364, 2364>>, <<2369, 2376>>,
                 <<2381, 2381>>, <<2385, 2391>>, <<2402, 2403>>,
                 <<2417, 2417>>, <<2433, 2433>>, <<2492, 2492>>,
                 <<2497, 2500>>, <<2509, 2509>>, <<2530, 2531>>,
                 <<2558, 2558>>, <<2561, 2562>>, <<2620, 2620>>,
                 <<2625, 2626>>, <<2631, 2632>>, <<2635, 2637>>,
                 <<2641, 2641>>, <<2672, 2673>>, <<2677, 2677>>,
                 <<2689, 2690>>, <<2748, 2748>>, <<2753, 2757>>,
                 <<2759, 2760>>, <<2765, 2765>>, <<2786, 2787>>,
                 <<2810, 2815>>, <<2817, 2817>>, <<2876, 2876>>,
                 <<2879, 2879>>, <<2881, 2884>>, <<2893, 2893>>,
                 <<2901, 2902>>, <<2914, 2915>>, <<2946, 2946>>,
                 <<3008, 3008>>, <<3021, 3021>>, <<3072, 3072>>,
                 <<3076, 3076>>, <<3132, 3132>>, <<3134, 3136>>,
                 <<3142, 3144>>, <<3146, 3149>>, <<3157, 3158>>,
                 <<3170, 3171>>, <<3201, 3201>>, <<3260, 3260>>,
                 <<3263, 3263>>, <<3270, 3270>>, <<3276, 3277>>,
                 <<3298, 3299>>, <<3328, 3329>>, <<3387, 3388>>,
                 <<3393, 3396>>, <<3405, 3405>>, <<3426, 3427>>,
                 <<3457, 3457>>, <<3530, 3530>>, <<3538, 3540>>,
                 <<3542, 3542>>, <<3633, 3633>>, <<3636, 3642>>,
                 <<3654, 3662>>, <<3761, 3761>>, <<3764, 3772>>,
                 <<3782, 3782>>, <<3784, 3790>>, <<3864, 3865>>,
                 <<3893, 3893>>, <<3895, 3895>>, <<3897, 3897>>,
                 <<3953, 3966>>, <<3968, 3972>>, <<3974, 3975>>,
                 <<3981, 3991>>, <<3993, 4028>>, <<4038, 4038>>,
                 <<4141, 4144>>, <<4146, 4151>>, <<4153, 4154>>,
                 <<4157, 4158>>, <<4184, 4185>>, <<4190, 4192>>,
                 <<4209, 4212>>, <<4226, 4226>>, <<4229, 4230>>,
                 <<4237, 4237>>, <<4253, 4253>>, <<4348, 4348>>,
                 <<4957, 4959>>, <<5906, 5908>>, <<5938, 5939>>,
                 <<5970, 5971>>, <<6002, 6003>>, <<6068, 6069>>,
                 <<6071, 6077>>, <<6086, 6086>>, <<6089, 6099>>,
                 <<6103, 6103>>, <<6109, 6109>>, <<6155, 6159>>,
                 <<6211, 6211>>, <<6277, 6278>>, <<6313, 6313>>,
                 <<6432, 6434>>, <<6439, 6440>>, <<6450, 6450>>,
                 <<6457, 6459>>, <<6679, 6680>>, <<6683, 6683>>,
                 <<6742, 6742>>, <<6744, 6750>>, <<6752, 6752>>,
                 <<6754, 6754>>, <<6757, 6764>>, <<6771, 6780>>,
                 <<6783, 6783>>, <<6823, 6823>>, <<6832, 6877>>,
                 <<6880, 6891>>, <<6912, 6915>>, <<6964, 6964>>,
                 <<6966, 6970>>, <<6972, 6972>>, <<6978, 6978>>,
                 <<7019, 7027>>, <<7040, 7041>>, <<7074, 7077>>,
                 <<7080, 7081>>, <<7083, 7085>>, <<7142, 7142>>,
                 <<7144, 7145>>, <<7149, 7149>>, <<7151, 7153>>,
                 <<7212, 7219>>, <<7222, 7223>>, <<7288, 7293>>,
                 <<7376, 7378>>, <<7380, 7392>>, <<7394, 7400>>,
                 <<7405, 7405>>, <<7412, 7412>>, <<7416, 7417>>,
                 <<7468, 7530>>, <<7544, 7544>>, <<7579, 7679>>,
                 <<8125, 8125>>, <<8127, 8129>>, <<8141, 8143>>,
                 <<8157, 8159>>, <<8173, 8175>>, <<8189, 8190>>,
                 <<8203, 8207>>, <<8216, 8217>>, <<8228, 8228>>,
                 <<8231, 8231>>, <<8234, 8238>>, <<8288, 8292>>,
                 <<8294, 8303>>, <<8305, 8305>>, <<8319, 8319>>,
                 <<8336, 8348>>, <<8400, 8432>>, <<11388, 11389>>,
                 <<11503, 11505>>, <<11631, 11631>>, <<11647, 11647>>,
                 <<11744, 11775>>, <<11823, 11823>>, <<12293, 12293>>,
                 <<12330, 12333>>, <<12337, 12341>>, <<12347, 12347>>,
                 <<12441, 12446>>, <<12540, 12542>>, <<40981, 40981>>,
                 <<42232, 42237>>, <<42508, 42508>>, <<42607, 42610>>,
                 <<42612, 42621>>, <<42623, 42623>>, <<42652, 42655>>,
                 <<42736, 42737>>, <<42752, 42785>>, <<42864, 42864>>,
                 <<42888, 42890>>, <<42993, 42996>>, <<43000, 43001>>,
                 <<43010, 43010>>, <<43014, 43014>>, <<43019, 43019>>,
                 <<43045, 43046>>, <<43052, 43052>>, <<43204, 43205>>,
                 <<43232, 43249>>, <<43263, 43263>>, <<43302, 43309>>,
                 <<43335, 43345>>, <<43392, 43394>>, <<43443, 43443>>,
                 <<43446, 43449>>, <<43452, 43453>>, <<43471, 43471>>,
                 <<43493, 43494>>, <<43561, 43566>>, <<43569, 43570>>,
                 <<43573, 43574>>, <<43587, 43587>>, <<43596, 43596>>,
                 <<43632, 43632>>, <<43644, 43644>>, <<43696, 43696>>,
                 <<43698, 43700>>, <<43703, 43704>>, <<43710, 43711>>,
                 <<43713, 43713>>, <<43741, 43741>>, <<43756, 43757>>,
                 <<43763, 43764>>, <<43766, 43766>>, <<43867, 43871>>,
                 <<43881, 43883>>, <<44005, 44005>>, <<44008, 44008>>,
                 <<44013, 44013>>, <<64286, 64286>>, <<64434, 64450>>,
                 <<65024, 65039>>, <<65043, 65043>>, <<65056, 65071>>,
                 <<65106, 65106>>, <<65109, 65109>>, <<65279, 65279>>,
                 <<65287, 65287>>, <<65294, 65294>>, <<65306, 65306>>,
                 <<65342, 65342>>, <<65344, 65344>>, <<65392, 65392>>,
                 <<65438, 65439>>, <<65507, 65507>>, <<65529, 65531>>})

\* char::to_lowercase: ASCII first, then the table; U+0130 is the one
\* character whose lower case is two characters
LowerChar(c) ==
    IF c \in AsciiChars
    THEN IF char_code(c) \in 65..90 THEN code_char(char_code(c) + 32) ELSE c
    ELSE IF high_code(c) = 304 THEN "i" \o code_char(775)
    ELSE IF to_lower(high_code(c)) = high_code(c) THEN c
    ELSE code_char(to_lower(high_code(c)))

\* case_ignorable_then_cased over the characters of s from the i-th on, in
\* steps of d (1 forwards, -1 backwards): the first character that is not
\* Case_Ignorable is Cased
RECURSIVE case_ignorable_then_cased(_, _, _)
case_ignorable_then_cased(s, i, d) ==
    IF i < 1 \/ i > Len(s) THEN FALSE
    ELSE IF Case_Ignorable(char_code(SubSeq(s, i, i)))
         THEN case_ignorable_then_cased(s, i + d, d)
    ELSE Cased(char_code(SubSeq(s, i, i)))

\* map_uppercase_sigma: U+03A3 at place i of s becomes U+03C2 at the end of
\* a word and U+03C3 elsewhere
map_uppercase_sigma(s, i) ==
    IF case_ignorable_then_cased(s, i - 1, -1)
       /\ ~case_ignorable_then_cased(s, i + 1, 1)
    THEN code_char(962) ELSE code_char(963)

\* the lower case of s from its i-th character on
RECURSIVE lower_from(_, _)
lower_from(s, i) ==
    IF i > Len(s) THEN ""
    ELSE (IF SubSeq(s, i, i) = code_char(931) THEN map_uppercase_sigma(s, i)
          ELSE LowerChar(SubSeq(s, i, i)))
         \o lower_from(s, i + 1)

\* str::to_lowercase
to_lowercase(s) == lower_from(s, 1)

\* the code points that have the property White_Space
White_Space ==
    (9..13) \cup {32, 133, 160, 5760} \cup (8192..8202)
    \cup {8232, 8233, 8239, 8287, 12288}

\* char::is_whitespace
IsSpace(c) == char_code(c) \in White_Space

\* str::trim: strip leading and trailing whitespace
RECURSIVE trim_start(_)
trim_start(s) ==
    IF Len(s) > 0 /\ IsSpace(SubSeq(s, 1, 1))
    THEN trim_start(SubSeq(s, 2, Len(s))) ELSE s

RECURSIVE trim_end(_)
trim_end(s) ==
    IF Len(s) > 0 /\ IsSpace(SubSeq(s, Len(s), Len(s)))
    THEN trim_end(SubSeq(s, 1, Len(s) - 1)) ELSE s

trim(s) == trim_end(trim_start(s))

\* str::trim_end_matches('/')
RECURSIVE trim_end_matches_slash(_)
trim_end_matches_slash(s) ==
    IF Len(s) > 0 /\ SubSeq(s, Len(s), Len(s)) = "/"
    THEN trim_end_matches_slash(SubSeq(s, 1, Len(s) - 1)) ELSE s

\* [&str]::join(sep)
RECURSIVE join(_, _)
join(v, sep) ==
    IF Len(v) = 0 THEN ""
    ELSE IF Len(v) = 1 THEN v[1]
    ELSE v[1] \o sep \o join(Tail(v), sep)

\* str::contains(needle)
str_contains(text, k) ==
    \E i \in 1..(Len(text) - Len(k) + 1) : SubSeq(text, i, i + Len(k) - 1) = k

\* Display of a non-negative integer
RECURSIVE nat_to_string(_)
nat_to_string(n) ==
    IF n < 10 THEN SubSeq("0123456789", n + 1, n + 1)
    ELSE nat_to_string(n \div 10) \o nat_to_string(n % 10)

\* Display of an i64
int_to_string(n) == IF n < 0 THEN "-" \o nat_to_string(-n) ELSE nat_to_string(n)
\* Ord for str: byte-wise lexicographic order, a < b
RECURSIVE str_less(_, _)
str_less(a, b) ==
    IF Len(b) = 0 THEN FALSE
    ELSE IF Len(a) = 0 THEN TRUE
    ELSE IF SubSeq(a, 1, 1) = SubSeq(b, 1, 1)
         THEN str_less(SubSeq(a, 2, Len(a)), SubSeq(b, 2, Len(b)))
    ELSE char_code(SubSeq(a, 1, 1)) < char_code(SubSeq(b, 1, 1))

\* the strings of a set in ascending order: the least one, then the others
RECURSIVE sorted_keys(_)
least_first(m, S) == <<m>> \o sorted_keys(S \ {m})

sorted_keys(S) ==
    IF S = {} THEN <<>>
    ELSE least_first(CHOOSE x \in S : \A y \in S : x = y \/ str_less(x, y), S)

---------------------------------------------------------------------------
\* serde_json serialisation of a Value (Display / to_string and
\* to_string_pretty).  Object members come out in key order (serde_json's
\* default BTreeMap-backed Map).

\* the members of an object, as the sequence of its keys in serialisation order
keys_in_order(o) == sorted_keys(DOMAIN o)

\* the escape serde_json writes for a character inside a string (ESCAPE):
\* the quote, the backslash and the characters below U+0020
escape_char(c) ==
    CASE c = "\"" -> "\\\""
      [] c = "\\" -> "\\\\"
      [] c = "\n" -> "\\n"
      [] c = "\r" -> "\\r"
      [] c = "\t" -> "\\t"
      [] c = "\f" -> "\\f"
      [] c = code_char(8) -> "\\b"
      [] c \in AsciiChars /\ CharCodes[c] \in (1..7) \cup {11} \cup (14..31) ->
            "\\u00" \o hex_digit(CharCodes[c] \div 16)
            \o hex_digit(CharCodes[c] % 16)
      [] OTHER -> c

\* a string between quotes, its characters escaped
RECURSIVE escape_chars(_)
escape_chars(s) ==
    IF Len(s) = 0 THEN ""
    ELSE escape_char(SubSeq(s, 1, 1)) \o escape_chars(SubSeq(s, 2, Len(s)))

quoted(s) == "\"" \o escape_chars(s) \o "\""

RECURSIVE spaces(_)
spaces(n) == IF n = 0 THEN "" ELSE " " \o spaces(n - 1)

RECURSIVE ser(_, _, _)
\* the members of an object whose keys, in order, are ks
ser_map(o, ks, pretty, indent) ==
    IF Len(ks) = 0 THEN "{}"
    ELSE (IF pretty THEN "{\n" \o spaces(indent + 2) ELSE "{")
         \o join([i \in 1..Len(ks) |->
                    quoted(ks[i]) \o (IF pretty THEN ": " ELSE ":")
                    \o ser(o[ks[i]], pretty, indent + 2)],
                 IF pretty THEN ",\n" \o spaces(indent + 2) ELSE ",")
         \o (IF pretty THEN "\n" \o spaces(indent) \o "}" ELSE "}")

ser(val, pretty, indent) ==
    CASE val.t = "null" -> "null"
      [] val.t = "bool" -> (IF val.b THEN "true" ELSE "false")
      [] val.t = "num" -> int_to_string(val.n)
      [] val.t = "str" -> quoted(val.s)
      [] val.t = "arr" ->
            IF Len(val.a) = 0 THEN "[]"
            ELSE (IF pretty THEN "[\n" \o spaces(indent + 2) ELSE "[")
                 \o join([i \in 1..Len(val.a) |->
                            ser(val.a[i], pretty, indent + 2)],
                         IF pretty THEN ",\n" \o spaces(indent + 2) ELSE ",")
                 \o (IF pretty THEN "\n" \o spaces(indent) \o "]" ELSE "]")
      [] val.t = "obj" -> ser_map(val.o, keys_in_order(val.o), pretty, indent)

\* impl Display for Value / serde_json::to_string
to_string(val) == ser(val, FALSE, 0)

\* serde_json::to_string_pretty
to_string_pretty(val) == ser(val, TRUE, 0)

---------------------------------------------------------------------------
\* HTTP status (reqwest::StatusCode)

\* StatusCode::canonical_reason().unwrap_or("<unknown status code>"): the
\* phrase of every status code the http crate registers
reason_phrase(code) ==
    CASE code = 100 -> "Continue"
      [] code = 101 -> "Switching Protocols"
      [] code = 102 -> "Processing"
      [] code = 103 -> "Early Hints"
      [] code = 200 -> "OK"
      [] code = 201 -> "Created"
      [] code = 202 -> "Accepted"
      [] code = 203 -> "Non Authoritative Information"
      [] code = 204 -> "No Content"
      [] code = 205 -> "Reset Content"
      [] code = 206 -> "Partial Content"
      [] code = 207 -> "Multi-Status"
      [] code = 208 -> "Already Reported"
      [] code = 226 -> "IM Used"
      [] code = 300 -> "Multiple Choices"
      [] code = 301 -> "Moved Permanently"
      [] code = 302 -> "Found"
      [] code = 303 -> "See Other"
      [] code = 304 -> "Not Modified"
      [] code = 305 -> "Use Proxy"
      [] code = 307 -> "Temporary Redirect"
      [] code = 308 -> "Permanent Redirect"
      [] code = 400 -> "Bad Request"
      [] code = 401 -> "Unauthorized"
      [] code = 402 -> "Payment Required"
      [] code = 403 -> "Forbidden"
      [] code = 404 -> "Not Found"
      [] code = 405 -> "Method Not Allowed"
      [] code = 406 -> "Not Acceptable"
      [] code = 407 -> "Proxy Authentication Required"
      [] code = 408 -> "Request Timeout"
      [] code = 409 -> "Conflict"
      [] code = 410 -> "Gone"
      [] code = 411 -> "Length Required"
      [] code = 412 -> "Precondition Failed"
      [] code = 413 -> "Payload Too Large"
      [] code = 414 -> "URI Too Long"
      [] code = 415 -> "Unsupported Media Type"
      [] code = 416 -> "Range Not Satisfiable"
      [] code = 417 -> "Expectation Failed"
      [] code = 418 -> "I'm a teapot"
      [] code = 421 -> "Misdirected Request"
      [] code = 422 -> "Unprocessable Entity"
      [] code = 423 -> "Locked"
      [] code = 424 -> "Failed Dependency"
      [] code = 425 -> "Too Early"
      [] code = 426 -> "Upgrade Required"
      [] code = 428 -> "Precondition Required"
      [] code = 429 -> "Too Many Requests"
      [] code = 431 -> "Request Header Fields Too Large"
      [] code = 451 -> "Unavailable For Legal Reasons"
      [] code = 500 -> "Internal Server Error"
      [] code = 501 -> "Not Implemented"
      [] code = 502 -> "Bad Gateway"
      [] code = 503 -> "Service Unavailable"
      [] code = 504 -> "Gateway Timeout"
      [] code = 505 -> "HTTP Version Not Supported"
      [] code = 506 -> "Variant Also Negotiates"
      [] code = 507 -> "Insufficient Storage"
      [] code = 508 -> "Loop Detected"
      [] code = 510 -> "Not Extended"
      [] code = 511 -> "Network Authentication Required"
      [] OTHER -> "<unknown status code>"

\* impl Display for StatusCode: the number and the canonical reason
status_to_string(code) == nat_to_string(code) \o " " \o reason_phrase(code)

\* StatusCode::is_success: 2xx
is_success(code) == 200 <= code /\ code < 300

---------------------------------------------------------------------------
\* JSON-RPC 2.0 types

\* JsonRpcResponse::success
JsonRpcResponse_success(id, result) ==
    [jsonrpc |-> "2.0", id |-> id, result |-> Some(result), error |-> None]

\* JsonRpcResponse::error
JsonRpcResponse_error(id, code, message) ==
    [jsonrpc |-> "2.0", id |-> id, result |-> None,
     error |-> Some([code |-> code, message |-> message, data |-> None])]

\* Serialize for JsonRpcError: data is skipped when None
serialize_error(e) ==
    JObj([k \in {"code", "message"} \cup (IF e.data.some THEN {"data"} ELSE {}) |->
            CASE k = "code" -> JNum(e.code)
              [] k = "message" -> JStr(e.message)
              [] k = "data" -> e.data.v])

\* a serialiser without skip_serializing_if: None is written as null
serialize_response_no_skip(r) ==
    JObj([jsonrpc |-> JStr(r.jsonrpc),
          id |-> r.id,
          result |-> IF r.result.some THEN r.result.v ELSE JNull,
          error |-> IF r.error.some THEN serialize_error(r.error.v) ELSE JNull])

\* Serialize for JsonRpcResponse: result and error are skipped when None
serialize_response(r) ==
    JObj([k \in {"jsonrpc", "id"}
                \cup (IF r.result.some THEN {"result"} ELSE {})
                \cup (IF r.error.some THEN {"error"} ELSE {}) |->
            CASE k = "jsonrpc" -> JStr(r.jsonrpc)
              [] k = "id" -> r.id
              [] k = "result" -> r.result.v
              [] k = "error" -> serialize_error(r.error.v)])

\* Deserialize for JsonRpcRequest (serde derive), read by serde_json from the
\* text of the line.  The reader is followed character by character, so that
\* an error carries serde_json's message and position.  The readers that
\* start by skipping whitespace (parse_whitespace) take the offset reached
\* after it.  A reader's result is
\* [ok |-> TRUE, v |-> what was read, i |-> the offset reached] or an error
\* [ok |-> FALSE, e |-> message, i |-> the offset reached, fixed |-> whether
\* the message holds its position].  serde_json reads bytes: a column is a
\* number of bytes.  Where serde_json writes U+0060 around a name or a value,
\* the texts here hold an apostrophe, U+0060 being no character of a string
\* of this module.  A number that becomes part of a value is an integer: a
\* fraction, an exponent and -0 make a float, which a Value here does not
\* hold, and the reading of such a text has no value here; of a number that
\* is skipped the syntax is read in full.

\* the character at offset i of s, "" at the end of s
peek(s, i) == IF i < Len(s) THEN SubSeq(s, i + 1, i + 1) ELSE ""

\* the offset in bytes of the end of the i-th character of s: serde_json
\* reads bytes, and a column is a number of bytes
byte_index(s, i) ==
    i + Cardinality({k \in 1..i : SubSeq(s, k, k) \notin AsciiChars})
      + Cardinality({k \in 1..i : SubSeq(s, k, k) \notin AsciiChars
                                  /\ high_code(SubSeq(s, k, k)) >= 2048})

\* Error::syntax(code, line, column); i is where the reader stands
syntax_error(code, column, i) ==
    [ok |-> FALSE, fixed |-> TRUE, i |-> i,
     e |-> code \o " at line 1 column " \o nat_to_string(column)]

\* Deserializer::error: the position of the last character read
de_error(s, i, code) == syntax_error(code, byte_index(s, i), i)

\* Deserializer::peek_error: the position of the byte peeked at
peek_error(s, i, code) ==
    syntax_error(code, IF i < Len(s) THEN byte_index(s, i) + 1
                       ELSE byte_index(s, Len(s)), i)

\* Deserializer::error after next_char took the first byte of the character
\* at offset i
next_error(s, i, code) == syntax_error(code, byte_index(s, i) + 1, i + 1)

\* de::Error::custom: a message that has no position yet
custom(msg, i) == [ok |-> FALSE, fixed |-> FALSE, i |-> i, e |-> msg]

\* Deserializer::fix_position: a message without position gets the reader's
fix_position(s, r, i) ==
    IF r.ok \/ r.fixed THEN r ELSE syntax_error(r.e, byte_index(s, i), i)

\* Deserializer::parse_whitespace: the offset of the next character that is
\* not a space, a line feed, a tab or a carriage return
RECURSIVE parse_whitespace(_, _)
parse_whitespace(s, i) ==
    IF peek(s, i) \in {" ", "\n", "\t", "\r"} THEN parse_whitespace(s, i + 1)
    ELSE i

\* Deserializer::parse_ident
RECURSIVE parse_ident(_, _, _)
parse_ident(s, i, ident) ==
    IF Len(ident) = 0 THEN [ok |-> TRUE, i |-> i]
    ELSE IF peek(s, i) = "" THEN de_error(s, i, "EOF while parsing a value")
    ELSE IF peek(s, i) # SubSeq(ident, 1, 1)
         THEN next_error(s, i, "expected ident")
    ELSE parse_ident(s, i + 1, SubSeq(ident, 2, Len(ident)))

IsDigit(c) == c \in {"0", "1", "2", "3", "4", "5", "6", "7", "8", "9"}

\* the digits of an integer, n being the number read so far.  serde_json
\* holds an integer up to u64::MAX, or down to i64::MIN, and makes a float of
\* one beyond; the integers here are those of at most nine digits, and the
\* reading of a longer one has no value here.
RECURSIVE parse_digits(_, _, _)
parse_digits(s, i, n) ==
    IF IsDigit(peek(s, i))
    THEN CASE n < 100000000 ->
            parse_digits(s, i + 1,
                         n * 10 + char_code(peek(s, i)) - char_code("0"))
    ELSE [ok |-> TRUE, v |-> n, i |-> i]

\* Deserializer::parse_number: the digits read are the number when neither
\* a fraction nor an exponent follows.  With one the number is a float, and
\* a Value here holds none: the reading of such a text has no value here.
parse_number(s, r) == CASE peek(s, r.i) \notin {".", "e", "E"} -> r

\* Deserializer::parse_integer, after the sign
parse_integer(s, i) ==
    IF peek(s, i) = "" THEN de_error(s, i, "EOF while parsing a value")
    ELSE IF peek(s, i) = "0"
         THEN IF IsDigit(peek(s, i + 1))
              THEN peek_error(s, i + 1, "invalid number")
              ELSE parse_number(s, [ok |-> TRUE, v |-> 0, i |-> i + 1])
    ELSE IF IsDigit(peek(s, i))
         THEN parse_number(s, parse_digits(s, i + 1,
                                char_code(peek(s, i)) - char_code("0")))
    ELSE next_error(s, i, "invalid number")

\* the offset of the next character that is no digit
RECURSIVE skip_digits(_, _)
skip_digits(s, i) == IF IsDigit(peek(s, i)) THEN skip_digits(s, i + 1) ELSE i

\* Deserializer::ignore_exponent, at the e; j is the offset after its sign
ignore_exponent(s, j) ==
    IF IsDigit(peek(s, j)) THEN [ok |-> TRUE, i |-> skip_digits(s, j + 1)]
    ELSE IF peek(s, j) = "" THEN de_error(s, j, "invalid number")
    ELSE next_error(s, j, "invalid number")

\* what may follow the digits of a skipped number: an exponent, or nothing
ignore_exponent_at(s, i) ==
    IF peek(s, i) \notin {"e", "E"} THEN [ok |-> TRUE, i |-> i]
    ELSE ignore_exponent(s, IF peek(s, i + 1) \in {"+", "-"} THEN i + 2
                            ELSE i + 1)

\* Deserializer::ignore_decimal, at the point: at least one digit, then
\* perhaps an exponent
ignore_decimal(s, i) ==
    IF ~IsDigit(peek(s, i + 1)) THEN peek_error(s, i + 1, "invalid number")
    ELSE ignore_exponent_at(s, skip_digits(s, i + 1))

\* Deserializer::ignore_integer, after the sign: the digits, then perhaps a
\* fraction or an exponent
ignore_integer(s, i) ==
    IF peek(s, i) = "" THEN de_error(s, i, "invalid number")
    ELSE IF peek(s, i) = "0" /\ IsDigit(peek(s, i + 1))
         THEN peek_error(s, i + 1, "invalid number")
    ELSE IF ~IsDigit(peek(s, i)) THEN next_error(s, i, "invalid number")
    ELSE IF peek(s, skip_digits(s, i)) = "."
         THEN ignore_decimal(s, skip_digits(s, i))
    ELSE ignore_exponent_at(s, skip_digits(s, i))

\* the character an escape stands for (parse_escape)
Escapes ==
    "\"" :> "\"" @@ "\\" :> "\\" @@ "/" :> "/" @@ "b" :> code_char(8)
    @@ "f" :> "\f" @@ "n" :> "\n" @@ "r" :> "\r" @@ "t" :> "\t"

\* the characters serde_json does not accept unescaped in a string (ESCAPE)
ControlChars == {SubSeq(Controls, n, n) : n \in 1..Len(Controls)}

HexDigits == "0123456789abcdefABCDEF"

\* decode_hex_val: the value of a hexadecimal digit
hex_val(c) ==
    LET k == CHOOSE k \in 1..22 : SubSeq(HexDigits, k, k) = c
    IN  IF k <= 16 THEN k - 1 ELSE k - 7

\* SliceRead::decode_hex_escape: the four bytes after \u
decode_hex_escape(s, i) ==
    IF byte_index(s, Len(s)) - byte_index(s, i) < 4
    THEN de_error(s, Len(s), "EOF while parsing a string")
    ELSE IF \A k \in 0..3 : \E n \in 1..22 :
                                  SubSeq(HexDigits, n, n) = peek(s, i + k)
         THEN [ok |-> TRUE, i |-> i + 4,
               v |-> 4096 * hex_val(peek(s, i)) + 256 * hex_val(peek(s, i + 1))
                     + 16 * hex_val(peek(s, i + 2)) + hex_val(peek(s, i + 3))]
    ELSE syntax_error("invalid escape", byte_index(s, i) + 4, i + 4)

\* SliceRead::parse_str, after the opening quote
RECURSIVE parse_str(_, _, _)

\* parse_unicode_escape once the escape after a leading surrogate n1 was
\* read: it must be a trailing surrogate, and the two make one character
parse_trailing_surrogate(s, n1, h, acc) ==
    IF ~h.ok THEN h
    ELSE IF h.v \notin 56320..57343
         THEN de_error(s, h.i, "lone leading surrogate in hex escape")
    ELSE parse_str(s, h.i, acc \o code_char(65536 + 1024 * (n1 - 55296)
                                                + (h.v - 56320)))

\* parse_unicode_escape, once the four digits were read
parse_unicode_escape(s, h, acc) ==
    IF ~h.ok THEN h
    ELSE IF h.v \in 56320..57343
         THEN de_error(s, h.i, "lone leading surrogate in hex escape")
    ELSE IF h.v \notin 55296..56319
         THEN parse_str(s, h.i, acc \o code_char(h.v))
    ELSE IF peek(s, h.i) = "" THEN de_error(s, h.i, "EOF while parsing a string")
    ELSE IF peek(s, h.i) # "\\"
         THEN next_error(s, h.i, "unexpected end of hex escape")
    ELSE IF peek(s, h.i + 1) = ""
         THEN de_error(s, h.i + 1, "EOF while parsing a string")
    ELSE IF peek(s, h.i + 1) # "u"
         THEN next_error(s, h.i + 1, "unexpected end of hex escape")
    ELSE parse_trailing_surrogate(s, h.v, decode_hex_escape(s, h.i + 2), acc)

\* parse_escape, after the backslash
parse_escape(s, i, acc) ==
    IF peek(s, i) = "" THEN de_error(s, i, "EOF while parsing a string")
    ELSE IF peek(s, i) \in DOMAIN Escapes
         THEN parse_str(s, i + 1, acc \o Escapes[peek(s, i)])
    ELSE IF peek(s, i) = "u"
         THEN parse_unicode_escape(s, decode_hex_escape(s, i + 1), acc)
    ELSE next_error(s, i, "invalid escape")

parse_str(s, i, acc) ==
    IF peek(s, i) = "" THEN de_error(s, i, "EOF while parsing a string")
    ELSE IF peek(s, i) = "\"" THEN [ok |-> TRUE, v |-> acc, i |-> i + 1]
    ELSE IF peek(s, i) = "\\" THEN parse_escape(s, i + 1, acc)
    ELSE IF peek(s, i) \in ControlChars
         THEN de_error(s, i + 1,
                "control character (\\u0000-\\u001F) found while parsing a string")
    ELSE parse_str(s, i + 1, acc \o peek(s, i))

\* SliceRead::ignore_str, after the opening quote: the string is skipped,
\* an escape is looked at but not decoded, and the reader does not move
\* past a control character
RECURSIVE ignore_str(_, _)

\* ignore_escape once the four digits after \u were read
ignore_hex_escape(s, h) == IF ~h.ok THEN h ELSE ignore_str(s, h.i)

\* ignore_escape, after the backslash
ignore_escape(s, i) ==
    IF peek(s, i) = "" THEN de_error(s, i, "EOF while parsing a string")
    ELSE IF peek(s, i) \in DOMAIN Escapes THEN ignore_str(s, i + 1)
    ELSE IF peek(s, i) = "u"
         THEN ignore_hex_escape(s, decode_hex_escape(s, i + 1))
    ELSE next_error(s, i, "invalid escape")

ignore_str(s, i) ==
    IF peek(s, i) = "" THEN de_error(s, i, "EOF while parsing a string")
    ELSE IF peek(s, i) = "\"" THEN [ok |-> TRUE, i |-> i + 1]
    ELSE IF peek(s, i) = "\\" THEN ignore_escape(s, i + 1)
    ELSE IF peek(s, i) \in ControlChars
         THEN de_error(s, i,
                "control character (\\u0000-\\u001F) found while parsing a string")
    ELSE ignore_str(s, i + 1)

\* the result r with val for what was read
read_as(r, val) == IF r.ok THEN [ok |-> TRUE, v |-> val, i |-> r.i] ELSE r

\* the number or the string read, as a Value, an Option or a key
read_value(r, as) ==
    IF ~r.ok THEN r
    ELSE [ok |-> TRUE, i |-> r.i, some |-> TRUE,
          v |-> CASE as = "number" -> JNum(r.v)
                  [] as = "negative" /\ r.v > 0 -> JNum(0 - r.v)
                  [] as = "string" -> JStr(r.v)
                  [] as = "some" -> Some(r.v)
                  [] as = "key" -> r.v]

\* the null, boolean, number or string that starts at i with character c;
\* ignoring tells that the value is being skipped (ignore_integer)
scalar(s, i, c, ignoring) ==
    CASE c = "n" -> read_as(parse_ident(s, i + 1, "ull"), JNull)
      [] c = "t" -> read_as(parse_ident(s, i + 1, "rue"), JBool(TRUE))
      [] c = "f" -> read_as(parse_ident(s, i + 1, "alse"), JBool(FALSE))
      [] c = "-" -> IF ignoring THEN ignore_integer(s, i + 1)
                    ELSE read_value(parse_integer(s, i + 1), "negative")
      [] c = "\"" -> IF ignoring THEN ignore_str(s, i + 1)
                     ELSE read_value(parse_str(s, i + 1, ""), "string")
      [] OTHER -> IF ~IsDigit(c) THEN peek_error(s, i, "expected value")
                  ELSE IF ignoring THEN ignore_integer(s, i)
                  ELSE read_value(parse_integer(s, i), "number")

\* SeqAccess::next_element_seed up to the element: whether one follows, and
\* where it starts
has_next_element(s, i, first) ==
    LET j == parse_whitespace(s, i + 1)
    IN  IF peek(s, i) = "]" THEN [ok |-> TRUE, some |-> FALSE, i |-> i]
        ELSE IF peek(s, i) = "," /\ ~first
             THEN IF peek(s, j) = "]" THEN peek_error(s, j, "trailing comma")
                  ELSE IF peek(s, j) = ""
                       THEN peek_error(s, j, "EOF while parsing a value")
                  ELSE [ok |-> TRUE, some |-> TRUE, i |-> j]
        ELSE IF peek(s, i) = "" THEN peek_error(s, i, "EOF while parsing a list")
        ELSE IF first THEN [ok |-> TRUE, some |-> TRUE, i |-> i]
        ELSE peek_error(s, i, "expected ',' or ']'")

\* MapAccess::next_key_seed: the next key, if there is one
key_from(s, j, comma) ==
    IF peek(s, j) = "\"" THEN read_value(parse_str(s, j + 1, ""), "key")
    ELSE IF comma /\ peek(s, j) = "}" THEN peek_error(s, j, "trailing comma")
    ELSE IF comma /\ peek(s, j) = ""
         THEN peek_error(s, j, "EOF while parsing a value")
    ELSE peek_error(s, j, "key must be a string")

next_key(s, i, first) ==
    IF peek(s, i) = "}" THEN [ok |-> TRUE, some |-> FALSE, i |-> i]
    ELSE IF peek(s, i) = "" THEN peek_error(s, i, "EOF while parsing an object")
    ELSE IF peek(s, i) = "," /\ ~first
         THEN key_from(s, parse_whitespace(s, i + 1), TRUE)
    ELSE IF first THEN key_from(s, i, FALSE)
    ELSE peek_error(s, i, "expected ',' or '}'")

\* Deserializer::parse_object_colon
parse_object_colon(s, i) ==
    IF peek(s, i) = ":" THEN [ok |-> TRUE, i |-> i + 1]
    ELSE IF peek(s, i) = "" THEN peek_error(s, i, "EOF while parsing an object")
    ELSE peek_error(s, i, "expected ':'")

\* Deserializer::end_seq
end_seq(s, i) ==
    LET j == parse_whitespace(s, i + 1)
    IN  IF peek(s, i) = "]" THEN [ok |-> TRUE, i |-> i + 1]
        ELSE IF peek(s, i) = ","
             THEN IF peek(s, j) = "]" THEN peek_error(s, j, "trailing comma")
                  ELSE peek_error(s, j, "trailing characters")
        ELSE IF peek(s, i) = "" THEN peek_error(s, i, "EOF while parsing a list")
        ELSE peek_error(s, i, "trailing characters")

\* Deserializer::end_map
end_map(s, i) ==
    IF peek(s, i) = "}" THEN [ok |-> TRUE, i |-> i + 1]
    ELSE IF peek(s, i) = "," THEN peek_error(s, i, "trailing comma")
    ELSE IF peek(s, i) = "" THEN peek_error(s, i, "EOF while parsing an object")
    ELSE peek_error(s, i, "trailing characters")

\* the value read once its end has been looked for
visited(val, end) ==
    IF ~end.ok THEN end ELSE [ok |-> TRUE, v |-> val, i |-> end.i]

\* Deserializer::deserialize_any for Value: the value that starts at i, depth
\* being the deserializer's remaining_depth.  An array or an object takes
\* one of it for the reading of its content (check_recursion!), and none
\* may be left at 0.
RECURSIVE parse_value(_, _, _)
RECURSIVE value_seq(_, _, _, _, _)
RECURSIVE value_map(_, _, _, _, _)

\* ValueVisitor::visit_seq: the elements up to the closing bracket
value_seq_rest(s, r, acc, depth) ==
    IF ~r.ok THEN r ELSE value_seq(s, r.i, FALSE, Append(acc, r.v), depth)

value_seq_element(s, h, acc, depth) ==
    IF ~h.ok THEN h
    ELSE IF ~h.some THEN [ok |-> TRUE, v |-> acc, i |-> h.i]
    ELSE value_seq_rest(s, parse_value(s, h.i, depth), acc, depth)

value_seq(s, i0, first, acc, depth) ==
    value_seq_element(s, has_next_element(s, parse_whitespace(s, i0), first),
                      acc, depth)

\* ValueVisitor::visit_map: the members up to the closing brace, a later
\* member replacing an earlier one of the same key
value_map_value(s, key, r, acc, depth) ==
    IF ~r.ok THEN r ELSE value_map(s, r.i, FALSE, (key :> r.v) @@ acc, depth)

value_map_colon(s, key, c, acc, depth) ==
    IF ~c.ok THEN c
    ELSE value_map_value(s, key,
                         parse_value(s, parse_whitespace(s, c.i), depth),
                         acc, depth)

value_map_key(s, k, acc, depth) ==
    IF ~k.ok THEN k
    ELSE IF ~k.some THEN [ok |-> TRUE, v |-> acc, i |-> k.i]
    ELSE value_map_colon(s, k.v,
                         parse_object_colon(s, parse_whitespace(s, k.i)),
                         acc, depth)

value_map(s, i0, first, acc, depth) ==
    value_map_key(s, next_key(s, parse_whitespace(s, i0), first), acc, depth)

value_seq_end(s, ret) ==
    IF ~ret.ok THEN ret
    ELSE visited(JArr(ret.v), end_seq(s, parse_whitespace(s, ret.i)))

value_map_end(s, ret) ==
    IF ~ret.ok THEN ret
    ELSE visited(JObj(ret.v), end_map(s, parse_whitespace(s, ret.i)))

parse_value(s, i, depth) ==
    IF peek(s, i) = "" THEN peek_error(s, i, "EOF while parsing a value")
    ELSE IF peek(s, i) \in {"[", "{"} /\ depth - 1 = 0
         THEN peek_error(s, i, "recursion limit exceeded")
    ELSE IF peek(s, i) = "["
         THEN value_seq_end(s, value_seq(s, i + 1, TRUE, <<>>, depth - 1))
    ELSE IF peek(s, i) = "{"
         THEN value_map_end(s, value_map(s, i + 1, TRUE, <<>>, depth - 1))
    ELSE scalar(s, i, peek(s, i), FALSE)

\* Deserializer::ignore_value (IgnoredAny, for a member that is no field of
\* the request): enclosing is the bracket whose content is being read,
\* scratch holds the brackets around it
RECURSIVE ignore_value(_, _, _, _)
RECURSIVE ignore_close(_, _, _, _, _)

ignore_key_read(s, key, j, frame, scratch) ==
    IF ~key.ok THEN key
    ELSE IF peek(s, j) = "" THEN peek_error(s, j, "EOF while parsing an object")
    ELSE IF peek(s, j) # ":" THEN peek_error(s, j, "expected ':'")
    ELSE ignore_value(s, parse_whitespace(s, j + 1), Some(frame), scratch)

\* what follows a comma, or the opening bracket: in an object a key and its
\* colon, then a value
ignore_member(s, i, frame, scratch) ==
    IF frame = "[" THEN ignore_value(s, i, Some(frame), scratch)
    ELSE IF peek(s, i) = "" THEN peek_error(s, i, "EOF while parsing an object")
    ELSE IF peek(s, i) # "\"" THEN peek_error(s, i, "key must be a string")
    ELSE ignore_key_read(s, ignore_str(s, i + 1),
                         parse_whitespace(s, ignore_str(s, i + 1).i),
                         frame, scratch)

\* the inner loop of ignore_value: closing brackets, then a comma
ignore_close(s, i, accept_comma, frame, scratch) ==
    IF peek(s, i) = "," /\ accept_comma
    THEN ignore_member(s, parse_whitespace(s, i + 1), frame, scratch)
    ELSE IF (peek(s, i) = "]" /\ frame = "[") \/ (peek(s, i) = "}" /\ frame = "{")
         THEN IF Len(scratch) = 0 THEN [ok |-> TRUE, i |-> i + 1]
              ELSE ignore_close(s, parse_whitespace(s, i + 1), TRUE,
                                scratch[Len(scratch)],
                                SubSeq(scratch, 1, Len(scratch) - 1))
    ELSE IF peek(s, i) = ""
         THEN peek_error(s, i, IF frame = "[" THEN "EOF while parsing a list"
                               ELSE "EOF while parsing an object")
    ELSE IF accept_comma
         THEN peek_error(s, i, IF frame = "[" THEN "expected ',' or ']'"
                               ELSE "expected ',' or '}'")
    ELSE ignore_member(s, i, frame, scratch)

\* after a scalar: the bracket it stands in, if any, is looked at next
ignore_scalar(s, r, enclosing, scratch) ==
    IF ~r.ok THEN r
    ELSE IF enclosing.some
         THEN ignore_close(s, parse_whitespace(s, r.i), TRUE, enclosing.v, scratch)
    ELSE IF Len(scratch) = 0 THEN [ok |-> TRUE, i |-> r.i]
    ELSE ignore_close(s, parse_whitespace(s, r.i), TRUE, scratch[Len(scratch)],
                      SubSeq(scratch, 1, Len(scratch) - 1))

ignore_value(s, i, enclosing, scratch) ==
    IF peek(s, i) = "" THEN peek_error(s, i, "EOF while parsing a value")
    ELSE IF peek(s, i) \in {"[", "{"}
         THEN ignore_close(s, parse_whitespace(s, i + 1), FALSE, peek(s, i),
                           IF enclosing.some THEN Append(scratch, enclosing.v)
                           ELSE scratch)
    ELSE ignore_scalar(s, scalar(s, i, peek(s, i), TRUE), enclosing, scratch)

\* char::is_grapheme_extended and core::unicode::printable::is_printable,
\* below U+0300: none of these code points has the property Grapheme_Extend,
\* and all are printable but those of the general categories Cc (U+0000 to
\* U+001F, U+007F to U+009F), Zs other than the space (U+00A0) and Cf
\* (U+00AD).  From U+0300 on the tables of std are not held here: the Debug
\* text of such a character has no value here.
is_grapheme_extended(n) == CASE n < 768 -> FALSE

is_printable(n) == CASE n < 768 -> n \notin (0..31) \cup (127..160) \cup {173}

\* char::escape_debug_ext as Debug for str asks for it, by which
\* Unexpected::Str is displayed
debug_char(c) ==
    CASE c = "\"" -> "\\\""
      [] c = "\\" -> "\\\\"
      [] c = "\n" -> "\\n"
      [] c = "\r" -> "\\r"
      [] c = "\t" -> "\\t"
      [] OTHER ->
            IF c \in AsciiChars /\ CharCodes[c] \in 32..126 THEN c
            ELSE IF is_grapheme_extended(char_code(c))
                    \/ ~is_printable(char_code(c))
                 THEN "\\u{" \o to_hex(char_code(c)) \o "}"
            ELSE c

RECURSIVE debug_chars(_)
debug_chars(s) ==
    IF Len(s) = 0 THEN ""
    ELSE debug_char(SubSeq(s, 1, 1)) \o debug_chars(SubSeq(s, 2, Len(s)))

\* Display for Unexpected, of a scalar
unexpected(val) ==
    CASE val.t = "null" -> "null"
      [] val.t = "bool" -> (IF val.b THEN "boolean 'true'" ELSE "boolean 'false'")
      [] val.t = "num" -> "integer '" \o int_to_string(val.n) \o "'"
      [] val.t = "str" -> "string \"" \o debug_chars(val.s) \o "\""

\* de::Error::invalid_type as serde_json words it
invalid_type(unexp, exp) == "invalid type: " \o unexp \o ", expected " \o exp

\* the scalar read is reported as not being what was expected
invalid_scalar(s, r, exp) ==
    IF ~r.ok THEN r ELSE de_error(s, r.i, invalid_type(unexpected(r.v), exp))

\* Deserializer::peek_invalid_type: the value met at i is read, if it is a
\* scalar, and reported as not being what was expected
peek_invalid_type(s, i, exp) ==
    IF peek(s, i) = "[" THEN de_error(s, i, invalid_type("sequence", exp))
    ELSE IF peek(s, i) = "{" THEN de_error(s, i, invalid_type("map", exp))
    ELSE invalid_scalar(s, scalar(s, i, peek(s, i), FALSE), exp)

\* Deserializer::deserialize_string, for the fields jsonrpc and method
deserialize_string(s, i) ==
    IF peek(s, i) = "" THEN peek_error(s, i, "EOF while parsing a value")
    ELSE IF peek(s, i) = "\"" THEN parse_str(s, i + 1, "")
    ELSE peek_invalid_type(s, i, "a string")

\* Deserializer::deserialize_option, for the fields id and params: null is
\* None, any other value is Some.  The deserializer starts with a
\* remaining_depth of 128, of which deserialize_struct has taken one.
deserialize_option(s, i) ==
    IF peek(s, i) = "n" THEN read_as(parse_ident(s, i + 1, "ull"), None)
    ELSE read_value(parse_value(s, i, 128 - 1), "some")

\* the fields of JsonRpcRequest, in declaration order
Fields == <<"jsonrpc", "id", "method", "params">>

\* how the field named k is read
deserialize_field(k, s, i) ==
    IF k \in {"jsonrpc", "method"} THEN deserialize_string(s, i)
    ELSE deserialize_option(s, i)

\* a request built although the member jsonrpc is absent
build_request_default_jsonrpc(jsonrpc, id, method, params) ==
    IF ~method.some THEN Err("missing field 'method'")
    ELSE Ok([jsonrpc |-> unwrap_or(jsonrpc, ""), id |-> id,
             method |-> method.v, params |-> params])

\* the end of the derived visitor: jsonrpc and method must have been met,
\* id and params are None when they were not
build_request(jsonrpc, id, method, params) ==
    IF ~jsonrpc.some THEN Err("missing field 'jsonrpc'")
    ELSE IF ~method.some THEN Err("missing field 'method'")
    ELSE Ok([jsonrpc |-> jsonrpc.v, id |-> id,
             method |-> method.v, params |-> params])

\* the request of the fields met, or the message that one is missing
built_at(r, i) ==
    IF r.ok THEN [ok |-> TRUE, v |-> r.v, i |-> i] ELSE custom(r.e, i)

built(f, i) ==
    built_at(build_request(
                IF "jsonrpc" \in DOMAIN f THEN Some(f["jsonrpc"]) ELSE None,
                IF "id" \in DOMAIN f THEN f["id"] ELSE None,
                IF "method" \in DOMAIN f THEN Some(f["method"]) ELSE None,
                IF "params" \in DOMAIN f THEN f["params"] ELSE None), i)

\* the derived visit_map: members are read in the order of the text; a
\* field met twice is an error, a member that is no field is skipped
RECURSIVE visit_map(_, _, _, _)

visit_map_value(s, key, r, f) ==
    IF ~r.ok THEN r ELSE visit_map(s, r.i, FALSE, (key :> r.v) @@ f)

visit_map_ignored(s, g, f) ==
    IF ~g.ok THEN g ELSE visit_map(s, g.i, FALSE, f)

visit_map_colon(s, key, c, f) ==
    IF ~c.ok THEN c
    ELSE IF key \in {Fields[n] : n \in 1..4}
         THEN visit_map_value(s, key,
                deserialize_field(key, s, parse_whitespace(s, c.i)), f)
    ELSE visit_map_ignored(s,
            ignore_value(s, parse_whitespace(s, c.i), None, <<>>), f)

visit_map_key(s, k, f) ==
    IF ~k.ok THEN k
    ELSE IF ~k.some THEN built(f, k.i)
    ELSE IF k.v \in DOMAIN f
         THEN custom("duplicate field '" \o k.v \o "'", k.i)
    ELSE visit_map_colon(s, k.v,
                         parse_object_colon(s, parse_whitespace(s, k.i)), f)

visit_map(s, i0, first, f) ==
    visit_map_key(s, next_key(s, parse_whitespace(s, i0), first), f)

\* the derived visit_seq: the four fields in declaration order
RECURSIVE visit_seq(_, _, _, _)

visit_seq_rest(s, r, n, f) ==
    IF ~r.ok THEN r ELSE visit_seq(s, r.i, n + 1, (Fields[n] :> r.v) @@ f)

visit_seq_element(s, h, n, f) ==
    IF ~h.ok THEN h
    ELSE IF ~h.some
         THEN custom("invalid length " \o nat_to_string(n - 1)
                     \o ", expected struct JsonRpcRequest with 4 elements", h.i)
    ELSE visit_seq_rest(s, deserialize_field(Fields[n], s, h.i), n, f)

visit_seq(s, i0, n, f) ==
    IF n > 4 THEN built(f, i0)
    ELSE visit_seq_element(s,
            has_next_element(s, parse_whitespace(s, i0), n = 1), n, f)

\* the outcome of the struct's sequence or map: a visitor's message without
\* position gets the position the reader has after the end was looked for
struct_visited(s, ret, end) ==
    IF ~ret.ok THEN fix_position(s, ret, end.i)
    ELSE IF ~end.ok THEN end
    ELSE [ok |-> TRUE, v |-> ret.v, i |-> end.i]

struct_seq_end(s, ret) ==
    IF ~ret.ok /\ ret.fixed THEN ret
    ELSE struct_visited(s, ret, end_seq(s, parse_whitespace(s, ret.i)))

struct_map_end(s, ret) ==
    IF ~ret.ok /\ ret.fixed THEN ret
    ELSE struct_visited(s, ret, end_map(s, parse_whitespace(s, ret.i)))

\* Deserializer::deserialize_struct for JsonRpcRequest
deserialize_struct(s, i) ==
    IF peek(s, i) = "" THEN peek_error(s, i, "EOF while parsing a value")
    ELSE IF peek(s, i) = "[" THEN struct_seq_end(s, visit_seq(s, i + 1, 1, <<>>))
    ELSE IF peek(s, i) = "{" THEN struct_map_end(s, visit_map(s, i + 1, TRUE, <<>>))
    ELSE peek_invalid_type(s, i, "struct JsonRpcRequest")

\* Deserializer::end: nothing but whitespace may follow the request
de_end(s, r) ==
    IF ~r.ok THEN Err(r.e)
    ELSE IF parse_whitespace(s, r.i) < Len(s)
         THEN Err(peek_error(s, parse_whitespace(s, r.i),
                             "trailing characters").e)
    ELSE Ok(r.v)

\* serde_json's from_trait over the text s
from_trait(s) == de_end(s, deserialize_struct(s, parse_whitespace(s, 0)))

\* An input line is [k |-> "text", s |-> chars] for any text, or
\* [k |-> "json", pad |-> whitespace, v |-> value] for a line whose text is
\* pad, the compact serialisation of v, pad.
line_text(l) == IF l.k = "text" THEN l.s ELSE l.pad \o to_string(l.v) \o l.pad

\* line.trim()
trim_line(l) == IF l.k = "text" THEN [l EXCEPT !.s = trim(l.s)]
                ELSE [l EXCEPT !.pad = trim(l.pad)]

\* line.is_empty()
line_is_empty(l) == Len(line_text(l)) = 0

\* Value::Null as a field of type Option<Value>
opt_field(o) == IF o.some /\ o.v.t # "null" THEN Some(o.v) ELSE None

\* the number of arrays and objects, val included, that are open at the
\* innermost bracket of the text of val
RECURSIVE nesting(_)
nesting(val) ==
    LET inner == IF val.t = "arr" THEN {nesting(val.a[i]) : i \in DOMAIN val.a}
                 ELSE {nesting(val.o[k]) : k \in DOMAIN val.o}
    IN  IF val.t \notin {"arr", "obj"} THEN 0
        ELSE IF inner = {} THEN 1
        ELSE 1 + CHOOSE d \in inner : \A e \in inner : e <= d

\* the request the compact serialisation of val is read as, when it is read
\* as one: an object whose jsonrpc and method members are strings, or an
\* array of the four fields; None when reading the text ends in an error.
\* The values of id and params are read within the recursion limit of 128,
\* of which the request itself takes one (a member that is skipped is read
\* without a limit).
request_of_value(val) ==
    LET m == IF val.t = "obj" THEN [n \in 1..4 |-> get(val, Fields[n])]
             ELSE IF val.t = "arr" /\ Len(val.a) = 4
                  THEN [n \in 1..4 |-> Some(val.a[n])]
             ELSE [n \in 1..4 |-> Some(JNull)]
        r == build_request(opt_as_str(m[1]), opt_field(m[2]),
                           opt_as_str(m[3]), opt_field(m[4]))
    IN  IF r.ok /\ (\A n \in {1, 3} : m[n].some => m[n].v.t = "str")
                /\ (\A n \in {2, 4} : m[n].some => nesting(m[n].v) < 128 - 1)
        THEN Some(r.v) ELSE None

\* serde_json::from_str::<JsonRpcRequest>.  The text of a line given by its
\* value is read only when it holds no request, for the error.
from_str(l) ==
    IF l.k = "json" /\ request_of_value(l.v).some
    THEN Ok(request_of_value(l.v).v)
    ELSE from_trait(line_text(l))

---------------------------------------------------------------------------
\* MCP tool definitions.  The dash U+2014 of two descriptions is no character
\* of a string of this module and is written "-".

StrProp(desc) == JObj([type |-> JStr("string"), description |-> JStr(desc)])

ApiKeyProp == StrProp("Your ProxyBase API key (starts with pk_)")

NoProps == [k \in {} |-> JNull]

ToolDef(name, desc, props, required) ==
    JObj([name |-> JStr(name),
          description |-> JStr(desc),
          inputSchema |->
              JObj([type |-> JStr("object"),
                    properties |-> JObj(props),
                    required |-> JArr([i \in 1..Len(required) |-> JStr(required[i])])])])

\* a catalog that holds the first tool only
get_tools_register_only ==
    JArr(<<ToolDef("register_agent", "Register a new AI agent with ProxyBase.",
                   NoProps, <<>>)>>)

get_tools ==
    JArr(<<
      ToolDef("register_agent",
        "Register a new AI agent with ProxyBase and receive an API key. This is the first step - you need an API key to use all other tools. The API key should be saved and reused for subsequent requests.",
        NoProps, <<>>),
      ToolDef("list_packages",
        "List all available proxy bandwidth packages with pricing. Each package includes a bandwidth allocation (in bytes), price (in USD), proxy type, and target country.",
        [api_key |-> ApiKeyProp], <<"api_key">>),
      ToolDef("list_currencies",
        "List all available payment currencies (cryptocurrencies) that can be used for the pay_currency field when creating an order or topping up. These are the coins enabled on the payment provider's merchant account. You MUST call this before creating an order to know which pay_currency values are valid.",
        [api_key |-> ApiKeyProp], <<"api_key">>),
      ToolDef("create_order",
        "Create a new proxy order. This generates a cryptocurrency payment invoice. Once payment is confirmed via the blockchain, your SOCKS5 proxy credentials will be provisioned automatically. Poll check_order_status to monitor payment and get credentials.",
        [api_key |-> ApiKeyProp,
         package_id |-> StrProp("The package ID to purchase (e.g., 'us_residential_1gb')"),
         pay_currency |-> StrProp("Cryptocurrency to pay with. Use list_currencies to get valid values. Defaults to 'usdttrc20'."),
         callback_url |-> StrProp("Optional webhook URL to receive status notifications (payment confirmed, bandwidth 80%/95%, exhausted)")],
        <<"api_key", "package_id">>),
      ToolDef("check_order_status",
        "Check the current status of an order. Returns payment status, bandwidth usage, and SOCKS5 proxy credentials (host:port:username:password) once the proxy is active. Statuses: payment_pending → confirming → paid → proxy_active → bandwidth_exhausted.",
        [api_key |-> ApiKeyProp,
         order_id |-> StrProp("The order ID returned from create_order")],
        <<"api_key", "order_id">>),
      ToolDef("topup_order",
        "Add more bandwidth to an existing order. Creates a new payment invoice for the additional bandwidth. The proxy credentials remain the same - only the bandwidth allowance increases. Can also reactivate an exhausted proxy.",
        [api_key |-> ApiKeyProp,
         order_id |-> StrProp("The order ID to top up"),
         package_id |-> StrProp("The bandwidth package to add (e.g., 'us_residential_1gb')"),
         pay_currency |-> StrProp("Cryptocurrency to pay with. Use list_currencies to get valid values. Defaults to 'usdttrc20'.")],
        <<"api_key", "order_id", "package_id">>),
      ToolDef("rotate_proxy",
        "Rotate the proxy to get a fresh IP address. This calls the upstream partner's reset endpoint to invalidate the current session and assign a new IP. Only works on orders with proxy_active status. After rotation, your next SOCKS5 connection will use a new IP.",
        [api_key |-> ApiKeyProp,
         order_id |-> StrProp("The order ID whose proxy should be rotated")],
        <<"api_key", "order_id">>)
    >>)

---------------------------------------------------------------------------
\* ProxyBase API client.  A backend request is a record of its HTTP method,
\* URL, headers and JSON body; the backend's reply to it is
\*   [k |-> "send_error", e |-> text]            send() failed, or
\*   [k |-> "response", status |-> code, body |-> Option<Value>]
\* where body is None when the response body is not JSON.

\* The environment variable PROXYBASE_API_URL as std::env::var reads it: None
\* when it is not set, Some(text) when it is.
PROXYBASE_API_URL == {None, Some("http://localhost:8080//")}

\* ProxyBaseClient::new: the base URL without trailing slashes.  The client
\* main builds, from the environment variable or else from the default URL,
\* is the variable client.
ProxyBaseClient_new(url) == [base_url |-> trim_end_matches_slash(url)]

NoHeaders == [h \in {} |-> ""]

register_agent_request ==
    [method |-> "POST", url |-> client.base_url \o "/v1/agents",
     headers |-> NoHeaders, body |-> None]

list_packages_request(api_key) ==
    [method |-> "GET", url |-> client.base_url \o "/v1/packages",
     headers |-> ("X-API-Key" :> api_key), body |-> None]

\* a currency list that is always fetched under one and the same key
list_currencies_request_fixed_key(api_key) ==
    [method |-> "GET", url |-> client.base_url \o "/v1/currencies",
     headers |-> ("X-API-Key" :> "pk_a"), body |-> None]

list_currencies_request(api_key) ==
    [method |-> "GET", url |-> client.base_url \o "/v1/currencies",
     headers |-> ("X-API-Key" :> api_key), body |-> None]

\* a payload that forwards the currency in the lower case it was checked in
create_order_payload_lowercased(package_id, pay_currency, callback_url) ==
    JObj([k \in {"package_id"}
                \cup (IF pay_currency.some THEN {"pay_currency"} ELSE {})
                \cup (IF callback_url.some THEN {"callback_url"} ELSE {}) |->
            CASE k = "package_id" -> JStr(package_id)
              [] k = "pay_currency" -> JStr(to_lowercase(pay_currency.v))
              [] k = "callback_url" -> JStr(callback_url.v)])

\* the payload of create_order: optional fields only when supplied
create_order_payload(package_id, pay_currency, callback_url) ==
    JObj([k \in {"package_id"}
                \cup (IF pay_currency.some THEN {"pay_currency"} ELSE {})
                \cup (IF callback_url.some THEN {"callback_url"} ELSE {}) |->
            CASE k = "package_id" -> JStr(package_id)
              [] k = "pay_currency" -> JStr(pay_currency.v)
              [] k = "callback_url" -> JStr(callback_url.v)])

create_order_request(api_key, package_id, pay_currency, callback_url) ==
    [method |-> "POST", url |-> client.base_url \o "/v1/orders",
     headers |-> ("X-API-Key" :> api_key @@ "Content-Type" :> "application/json"),
     body |-> Some(create_order_payload(package_id, pay_currency, callback_url))]

check_order_status_request(api_key, order_id) ==
    [method |-> "GET",
     url |-> client.base_url \o "/v1/orders/" \o order_id \o "/status",
     headers |-> ("X-API-Key" :> api_key), body |-> None]

\* the payload of topup_order
topup_order_payload(package_id, pay_currency) ==
    JObj([k \in {"package_id"}
                \cup (IF pay_currency.some THEN {"pay_currency"} ELSE {}) |->
            CASE k = "package_id" -> JStr(package_id)
              [] k = "pay_currency" -> JStr(pay_currency.v)])

topup_order_request(api_key, order_id, package_id, pay_currency) ==
    [method |-> "POST",
     url |-> client.base_url \o "/v1/orders/" \o order_id \o "/topup",
     headers |-> ("X-API-Key" :> api_key @@ "Content-Type" :> "application/json"),
     body |-> Some(topup_order_payload(package_id, pay_currency))]

rotate_proxy_request(api_key, order_id) ==
    [method |-> "POST",
     url |-> client.base_url \o "/v1/orders/" \o order_id \o "/rotate",
     headers |-> ("X-API-Key" :> api_key), body |-> None]

\* a classification that never looks at the status
client_result_any_status(reply) ==
    IF reply.k = "send_error" THEN Err("HTTP error: " \o reply.e)
    ELSE IF ~reply.body.some THEN Err("Parse error: error decoding response body")
    ELSE Ok(reply.body.v)

\* The tail every client method shares: the reply classified as Result
client_result(reply) ==
    IF reply.k = "send_error" THEN Err("HTTP error: " \o reply.e)
    ELSE IF ~reply.body.some THEN Err("Parse error: error decoding response body")
    ELSE IF is_success(reply.status) THEN Ok(reply.body.v)
    ELSE Err("API error (" \o status_to_string(reply.status) \o "): "
             \o to_string(reply.body.v))

\* An async call is followed up to its next await: it either asks for a
\* backend request and suspends, or returns.  rs holds the replies received
\* so far by the call being executed; a client method is the n-th request of
\* that call.
Pending(request) == [k |-> "await", request |-> request]
Ret(x) == [k |-> "ret", result |-> x]

\* a client that asks once more when its request has just failed
client_call_retrying(request, rs, n) ==
    IF Len(rs) < n THEN Pending(request)
    ELSE IF Len(rs) = n /\ ~client_result(rs[n]).ok THEN Pending(request)
    ELSE Ret(client_result(rs[Len(rs)]))

client_call(request, rs, n) ==
    IF Len(rs) < n THEN Pending(request) ELSE Ret(client_result(rs[n]))

---------------------------------------------------------------------------
\* Tool execution

\* a reader that takes any present value, rendered as text
get_str_arg_any_type(args, key) ==
    LET o == get(args, key)
    IN  IF o.some THEN Ok(to_string(o.v))
        ELSE Err("Missing required argument: " \o key)

get_str_arg(args, key) ==
    LET o == opt_as_str(get(args, key))
    IN  IF o.some THEN Ok(o.v) ELSE Err("Missing required argument: " \o key)

\* currencies_arr.iter().filter_map(|v| v.as_str()).collect()
filter_map_as_str(arr) ==
    LET strs == SelectSeq(arr, LAMBDA v : v.t = "str")
    IN  [i \in 1..Len(strs) |-> strs[i].s]

\* Vec<&str>::contains
vec_contains(v, x) == \E i \in 1..Len(v) : v[i] = x

\* a check that rejects nothing
check_pay_currency_lenient(currency, currencies_val) == None

\* a check whose message leaves the supported currencies out
check_pay_currency_no_listing(currency, currencies_val) ==
    LET m == get(currencies_val, "currencies")
        currencies_arr == IF m.some THEN as_array(m.v) ELSE None
    IN  IF currencies_arr.some
        THEN LET valid_currencies == filter_map_as_str(currencies_arr.v)
             IN  IF ~vec_contains(valid_currencies, to_lowercase(currency))
                 THEN Some("Invalid pay_currency: '" \o currency \o "'")
                 ELSE None
        ELSE None

\* a check that refuses every currency when the list holds no array
check_pay_currency_strict(currency, currencies_val) ==
    LET m == get(currencies_val, "currencies")
        currencies_arr == IF m.some THEN as_array(m.v) ELSE None
    IN  IF currencies_arr.some
        THEN LET valid_currencies == filter_map_as_str(currencies_arr.v)
             IN  IF ~vec_contains(valid_currencies, to_lowercase(currency))
                 THEN Some("Invalid pay_currency: '" \o currency
                           \o "'. Supported currencies: "
                           \o join(valid_currencies, ", "))
                 ELSE None
        ELSE Some("Invalid pay_currency: '" \o currency
                  \o "'. Supported currencies: ")

\* The pay_currency check of create_order and topup_order against the body
\* of the currency list: Some(error message) when the currency is rejected
check_pay_currency(currency, currencies_val) ==
    LET m == get(currencies_val, "currencies")
        currencies_arr == IF m.some THEN as_array(m.v) ELSE None
    IN  IF currencies_arr.some
        THEN LET valid_currencies == filter_map_as_str(currencies_arr.v)
             IN  IF ~vec_contains(valid_currencies, to_lowercase(currency))
                 THEN Some("Invalid pay_currency: '" \o currency
                           \o "'. Supported currencies: "
                           \o join(valid_currencies, ", "))
                 ELSE None
        ELSE None

\* a validation that is best-effort: a failed currency list is ignored and
\* the order is placed
validated_order_swallowing(api_key, pay_currency, rs, order_request) ==
    IF pay_currency.some
    THEN LET cur == client_call(list_currencies_request(api_key), rs, 1)
         IN  IF cur.k = "await" THEN cur
             ELSE IF ~cur.result.ok THEN client_call(order_request, rs, 2)
             ELSE LET bad == check_pay_currency(pay_currency.v, cur.result.v)
                  IN  IF bad.some THEN Ret(Err(bad.v))
                      ELSE client_call(order_request, rs, 2)
    ELSE client_call(order_request, rs, 1)

\* if let Some(currency) = pay_currency { list_currencies()?; check }, then
\* the order request, which is the second request of the call when the
\* currency was validated and the first when it was not
validated_order(api_key, pay_currency, rs, order_request) ==
    IF pay_currency.some
    THEN LET cur == client_call(list_currencies_request(api_key), rs, 1)
         IN  IF cur.k = "await" THEN cur
             ELSE IF ~cur.result.ok THEN cur
             ELSE LET bad == check_pay_currency(pay_currency.v, cur.result.v)
                  IN  IF bad.some THEN Ret(Err(bad.v))
                      ELSE client_call(order_request, rs, 2)
    ELSE client_call(order_request, rs, 1)

execute_list_packages(args, rs) ==
    LET api_key == get_str_arg(args, "api_key")
    IN  IF ~api_key.ok THEN Ret(api_key)
        ELSE client_call(list_packages_request(api_key.v), rs, 1)

execute_list_currencies(args, rs) ==
    LET api_key == get_str_arg(args, "api_key")
    IN  IF ~api_key.ok THEN Ret(api_key)
        ELSE client_call(list_currencies_request(api_key.v), rs, 1)

execute_create_order(args, rs) ==
    LET api_key == get_str_arg(args, "api_key")
        package_id == get_str_arg(args, "package_id")
        pay_currency == opt_as_str(get(args, "pay_currency"))
        callback_url == opt_as_str(get(args, "callback_url"))
    IN  IF ~api_key.ok THEN Ret(api_key)
        ELSE IF ~package_id.ok THEN Ret(package_id)
        ELSE validated_order(api_key.v, pay_currency, rs,
                             create_order_request(api_key.v, package_id.v,
                                                  pay_currency, callback_url))

execute_check_order_status(args, rs) ==
    LET api_key == get_str_arg(args, "api_key")
        order_id == get_str_arg(args, "order_id")
    IN  IF ~api_key.ok THEN Ret(api_key)
        ELSE IF ~order_id.ok THEN Ret(order_id)
        ELSE client_call(check_order_status_request(api_key.v, order_id.v), rs, 1)

\* a top-up that reads package_id only after the currency validation
execute_topup_order_late_check(args, rs) ==
    LET api_key == get_str_arg(args, "api_key")
        order_id == get_str_arg(args, "order_id")
        package_id == get_str_arg(args, "package_id")
        pay_currency == opt_as_str(get(args, "pay_currency"))
    IN  IF ~api_key.ok THEN Ret(api_key)
        ELSE IF ~order_id.ok THEN Ret(order_id)
        ELSE IF pay_currency.some /\ Len(rs) = 0
        THEN Pending(list_currencies_request(api_key.v))
        ELSE IF ~package_id.ok THEN Ret(package_id)
        ELSE validated_order(api_key.v, pay_currency, rs,
                             topup_order_request(api_key.v, order_id.v,
                                                 package_id.v, pay_currency))

execute_topup_order(args, rs) ==
    LET api_key == get_str_arg(args, "api_key")
        order_id == get_str_arg(args, "order_id")
        package_id == get_str_arg(args, "package_id")
        pay_currency == opt_as_str(get(args, "pay_currency"))
    IN  IF ~api_key.ok THEN Ret(api_key)
        ELSE IF ~order_id.ok THEN Ret(order_id)
        ELSE IF ~package_id.ok THEN Ret(package_id)
        ELSE validated_order(api_key.v, pay_currency, rs,
                             topup_order_request(api_key.v, order_id.v,
                                                 package_id.v, pay_currency))

execute_rotate_proxy(args, rs) ==
    LET api_key == get_str_arg(args, "api_key")
        order_id == get_str_arg(args, "order_id")
    IN  IF ~api_key.ok THEN Ret(api_key)
        ELSE IF ~order_id.ok THEN Ret(order_id)
        ELSE client_call(rotate_proxy_request(api_key.v, order_id.v), rs, 1)

execute_tool(tool_name, args, rs) ==
    CASE tool_name = "register_agent" -> client_call(register_agent_request, rs, 1)
      [] tool_name = "list_packages" -> execute_list_packages(args, rs)
      [] tool_name = "list_currencies" -> execute_list_currencies(args, rs)
      [] tool_name = "create_order" -> execute_create_order(args, rs)
      [] tool_name = "check_order_status" -> execute_check_order_status(args, rs)
      [] tool_name = "topup_order" -> execute_topup_order(args, rs)
      [] tool_name = "rotate_proxy" -> execute_rotate_proxy(args, rs)
      [] OTHER -> Ret(Err("Unknown tool: " \o tool_name))

---------------------------------------------------------------------------
\* MCP request handler

CARGO_PKG_VERSION == "0.1.0"

\* a handshake that also announces resources
initialize_result_with_resources ==
    JObj([protocolVersion |-> JStr("2024-11-05"),
          capabilities |-> JObj([tools |-> EmptyObj, resources |-> EmptyObj]),
          serverInfo |-> JObj([name |-> JStr("proxybase-mcp"),
                               version |-> JStr(CARGO_PKG_VERSION)])])

initialize_result ==
    JObj([protocolVersion |-> JStr("2024-11-05"),
          capabilities |-> JObj([tools |-> EmptyObj]),
          serverInfo |-> JObj([name |-> JStr("proxybase-mcp"),
                               version |-> JStr(CARGO_PKG_VERSION)])])

text_content(text) == JArr(<<JObj([type |-> JStr("text"), text |-> JStr(text)])>>)

\* a handler that reports a tool failure as a JSON-RPC error
tool_call_response_rpc_error(id, result) ==
    IF result.ok
    THEN JsonRpcResponse_success(id,
            JObj([content |-> text_content(to_string_pretty(result.v))]))
    ELSE JsonRpcResponse_error(id, -32000, result.e)

\* match result { Ok(content) => .., Err(err_msg) => .. }
tool_call_response(id, result) ==
    IF result.ok
    THEN JsonRpcResponse_success(id,
            JObj([content |-> text_content(to_string_pretty(result.v))]))
    ELSE JsonRpcResponse_success(id,
            JObj([content |-> text_content(result.e), isError |-> JBool(TRUE)]))

\* params.and_then(|p| p.get("name")).and_then(|n| n.as_str()).unwrap_or("")
call_tool_name(params) ==
    unwrap_or(opt_as_str(IF params.some THEN get(params.v, "name") ELSE None), "")

\* params.and_then(|p| p.get("arguments")).cloned().unwrap_or(json!({}))
call_args(params) ==
    unwrap_or(IF params.some THEN get(params.v, "arguments") ELSE None, EmptyObj)

\* an unknown method reported under the code of "invalid request"
method_not_found_wrong_code(id, method) ==
    JsonRpcResponse_error(id, -32600, "Method not found: " \o method)

\* _ => JsonRpcResponse::error(id, -32601, ..)
method_not_found(id, method) ==
    JsonRpcResponse_error(id, -32601, "Method not found: " \o method)

handle_request(r, rs) ==
    LET id == unwrap_or(r.id, JNull)
    IN  CASE r.method = "initialize" ->
                Ret(JsonRpcResponse_success(id, initialize_result))
          [] r.method = "tools/list" ->
                Ret(JsonRpcResponse_success(id, JObj([tools |-> get_tools])))
          [] r.method = "tools/call" ->
                LET step == execute_tool(call_tool_name(r.params),
                                         call_args(r.params), rs)
                IN  IF step.k = "await" THEN step
                    ELSE Ret(tool_call_response(id, step.result))
          [] r.method \in {"notifications/initialized", "notifications/cancelled"} ->
                Ret(JsonRpcResponse_success(id, JNull))
          [] OTHER -> Ret(method_not_found(id, r.method))

---------------------------------------------------------------------------
\* The inputs: the lines stdin may deliver and the replies of the backend

\* an object with the members of fields (key -> Option) that are Some
ObjOf(fields) ==
    JObj([k \in {x \in DOMAIN fields : fields[x].some} |-> fields[k].v])

OptOf(S) == {None} \cup {Some(x) : x \in S}

IdValues == {JNull, JNum(1), JStr("req-é\t" \o code_char(8))}

ToolNames ==
    {"register_agent", "list_packages", "list_currencies", "create_order",
     "check_order_status", "topup_order", "rotate_proxy"}

ArgKeys == {"api_key", "package_id", "order_id", "pay_currency", "callback_url"}

\* the values an argument may hold: strings and one value of another type
ArgValues(key) ==
    CASE key = "api_key" -> {JStr("pk_a"), JStr("pk_b"), JNum(5)}
      [] key = "package_id" -> {JStr("us_1gb"), JNull}
      [] key = "order_id" -> {JStr("ord_1"), JBool(TRUE)}
      [] key = "pay_currency" -> {JStr("btc"), JStr("BTC"), JStr("xmr"), JStr("1"), JNum(1)}
      [] key = "callback_url" -> {JStr("https://cb"), JArr(<<>>)}

\* the value of a key the tool called does not read, when it is present
ExtraValue(key) ==
    CASE key = "api_key" -> JStr("pk_a")
      [] key = "package_id" -> JStr("us_1gb")
      [] key = "order_id" -> JBool(TRUE)
      [] key = "pay_currency" -> JStr("xmr")
      [] key = "callback_url" -> JStr("https://cb")

AllArgs ==
    {ObjOf([api_key |-> a, package_id |-> p, order_id |-> o,
            pay_currency |-> c, callback_url |-> u]) :
        a \in OptOf(ArgValues("api_key")), p \in OptOf(ArgValues("package_id")),
        o \in OptOf(ArgValues("order_id")), c \in OptOf(ArgValues("pay_currency")),
        u \in OptOf(ArgValues("callback_url"))}

\* the argument keys a tool reads
ReadKeys(tool) ==
    CASE tool = "register_agent" -> {}
      [] tool \in {"list_packages", "list_currencies"} -> {"api_key"}
      [] tool = "create_order" ->
            {"api_key", "package_id", "pay_currency", "callback_url"}
      [] tool \in {"check_order_status", "rotate_proxy"} -> {"api_key", "order_id"}
      [] tool = "topup_order" ->
            {"api_key", "order_id", "package_id", "pay_currency"}
      [] OTHER -> {}

\* the arguments objects sent to a tool: every combination of the keys it
\* reads, with the other keys all absent or all present
ArgsFor(tool) ==
    {x \in AllArgs :
        LET extra == ArgKeys \ ReadKeys(tool)
        IN  \/ DOMAIN x.o \cap extra = {}
            \/ \A k \in extra : k \in DOMAIN x.o /\ x.o[k] = ExtraValue(k)}

CallParams ==
    {JStr("register_agent"),
     EmptyObj,
     JObj([name |-> JNum(3), arguments |-> JObj([api_key |-> JStr("pk_a")])]),
     JObj([arguments |-> JObj([api_key |-> JStr("pk_a")])])}
    \cup {JObj([name |-> JStr("bogus_tool"), arguments |-> x]) : x \in ArgsFor("bogus_tool")}
    \cup {JObj([name |-> JStr(t)]) : t \in ToolNames}
    \cup {JObj([name |-> JStr(t), arguments |-> JStr("pk_a")]) : t \in ToolNames}
    \cup UNION {{JObj([name |-> JStr(t), arguments |-> x]) : x \in ArgsFor(t)} :
                  t \in ToolNames}

PlainMethods ==
    {"initialize", "tools/list", "notifications/initialized",
     "notifications/cancelled", "resources/list"}

PlainParams ==
    {JNull, EmptyObj,
     JObj([name |-> JStr("register_agent"), arguments |-> EmptyObj])}

RequestObj(id, method, params) ==
    ObjOf([jsonrpc |-> Some(JStr("2.0")), id |-> id,
           method |-> Some(JStr(method)), params |-> params])

RequestValues ==
    {RequestObj(id, m, p) : id \in OptOf(IdValues), m \in PlainMethods,
                            p \in OptOf(PlainParams)}
    \cup {RequestObj(id, "tools/call", p) : id \in OptOf(IdValues),
                                            p \in OptOf(CallParams)}
    \cup {JArr(<<JStr("2.0"), JNum(1), JStr("tools/list"), JNull>>),
          JArr(<<JStr("2.0"), JNull, JStr("initialize"), EmptyObj>>)}

\* JSON values that are not requests
OtherValues ==
    {JNum(7), JStr("tools/list"), EmptyObj,
     JObj([id |-> JNum(1), method |-> JStr("initialize")]),
     JObj([jsonrpc |-> JStr("2.0"), id |-> JNum(1)]),
     JObj([method |-> JNum(1)]),
     JObj([jsonrpc |-> JStr("2.0"), id |-> JNum(1), method |-> JNum(2)]),
     JObj([jsonrpc |-> JNull, id |-> JNum(1), method |-> JStr("initialize")]),
     JArr(<<JStr("2.0"), JNum(1), JStr("initialize")>>)}

Lines ==
    {[k |-> "text", s |-> x] :
        x \in {"", "  \t", " \f ", code_char(11) \o " " \o code_char(160),
               "not json", "{",
               " {\"jsonrpc\": ",
               "{\"jsonrpc\":\"2.0\",\"method\":\"m\",\"x\":\"a\tb\"}",
               "{\"jsonrpc\": \"2.0\", \"id\": \"\\u00e9\\b\", \"method\": \"ping\", \"x\": [1.5e3, -0]} x",
               "[\"2.0\", 1, \"tools/list\", null, 5]"}}
    \cup {[k |-> "json", pad |-> "", v |-> x] : x \in RequestValues \cup OtherValues}
    \cup {[k |-> "json", pad |-> " ", v |-> x] : x \in OtherValues}

ErrorBody == JObj([error |-> JStr("denied")])

CurrencyBodies ==
    {JObj([currencies |-> JArr(<<JStr("btc"), JStr("eth")>>)]),
     JObj([currencies |-> JArr(<<JStr("BTC"), JStr("ETH")>>)]),
     JObj([currencies |-> JArr(<<JNum(1), JStr("btc")>>)]),
     JObj([currencies |-> JArr(<<>>)]),
     JObj([currencies |-> JStr("btc")]),
     EmptyObj}

CurrencyReplies ==
    {[k |-> "send_error", e |-> "error sending request"],
     [k |-> "response", status |-> 200, body |-> None],
     [k |-> "response", status |-> 500, body |-> None],
     [k |-> "response", status |-> 401, body |-> Some(ErrorBody)]}
    \cup {[k |-> "response", status |-> 200, body |-> Some(b)] : b \in CurrencyBodies}

GenericReplies ==
    {[k |-> "send_error", e |-> "error sending request"],
     [k |-> "response", status |-> 200, body |-> None],
     [k |-> "response", status |-> 500, body |-> None],
     [k |-> "response", status |-> 404, body |-> Some(ErrorBody)],
     [k |-> "response", status |-> 201, body |-> Some(JObj([status |-> JStr("ok")]))]}

\* the replies the backend may give to a request
RepliesTo(request) ==
    IF request.url = client.base_url \o "/v1/currencies"
    THEN CurrencyReplies ELSE GenericReplies

---------------------------------------------------------------------------
\* main: the stdio transport loop.
\*   pc          "read": at stdin's next line; "await": handle_request is
\*               suspended on a backend reply; "next": the loop body has
\*               nothing left to do but, when it has written a line, to
\*               return from the write; "exit": the loop has ended
\*   line_no     the number of lines read
\*   line, req, response   the locals of the loop body (Option)
\*   replies     the backend replies received by the suspended handle_request
\*   sent        the backend requests issued for the line being handled, each
\*               with the number of the line read last when it was issued
\*   stdout_line the line written to stdout by this pass of the loop body
\*   written     for each line written to stdout so far, the number of the
\*               input line that caused it
\*   flushed     FALSE while the loop body is inside its write to stdout
\*               (to_writer, writeln!, flush), which returns when stdout has
\*               taken the line: a pipe that is full and that nobody reads
\*               keeps the write from returning

Init ==
    /\ \E var \in PROXYBASE_API_URL : client = ProxyBaseClient_new(unwrap_or(var, "https://api.proxybase.xyz"))
    /\ pc = "read"
    /\ line_no = 0
    /\ line = None
    /\ req = None
    /\ replies = <<>>
    /\ sent = <<>>
    /\ response = None
    /\ stdout_line = None
    /\ written = <<>>
    /\ flushed = TRUE

\* a loop that reads on while a handler awaits the backend
at_next_line_or_awaiting == pc \in {"read", "await"}

\* the loop asks stdin for its next line only between passes of its body
at_next_line == pc = "read"

\* a loop that suppresses the response by method name as well as by id
is_notification_by_method(r) ==
    ~r.id.some
    /\ r.method \in {"notifications/initialized", "notifications/cancelled"}

\* if req.id.is_none() { continue; }
is_notification(r) == ~r.id.some

\* serde_json::to_writer, writeln!, flush: the line is handed to stdout
WriteLine(resp, n) ==
    /\ stdout_line' = Some(serialize_response(resp))
    /\ written' = Append(written, n)
    /\ flushed' = FALSE

\* a loop body with a session: initialize is answered only while nothing
\* has been written yet
AfterHandle_initialize_once(r, resp, n) ==
    /\ response' = Some(resp)
    /\ pc' = "next"
    /\ IF is_notification(r) \/ (r.method = "initialize" /\ Len(written) > 0)
       THEN UNCHANGED <<stdout_line, written, flushed>>
       ELSE WriteLine(resp, n)

\* the loop body once handle_request has returned
AfterHandle(r, resp, n) ==
    /\ response' = Some(resp)
    /\ pc' = "next"
    /\ IF is_notification(r)
       THEN UNCHANGED <<stdout_line, written, flushed>>
       ELSE WriteLine(resp, n)

\* the loop body at the point step that handle_request has run up to: its
\* next await, where the request goes out, or its return
RunStep(r, step, n) ==
    IF step.k = "await"
    THEN /\ sent' = Append(sent, [line |-> n, request |-> step.request])
         /\ pc' = "await"
         /\ UNCHANGED <<response, stdout_line, written, flushed>>
    ELSE /\ AfterHandle(r, step.result, n)
         /\ UNCHANGED sent

\* handle_request run up to its next await or its return
RunHandler(r, rs, n) == RunStep(r, handle_request(r, rs), n)

\* stdin yields a line: the loop body up to the first await or to its end
ReadLine(l) ==
    /\ UNCHANGED client
    /\ at_next_line
    /\ line_no < MaxLines
    /\ line_no' = line_no + 1
    /\ line' = Some(l)
    /\ LET trimmed == trim_line(l)
           parsed == from_str(trimmed)
       IN  IF line_is_empty(trimmed)
           THEN /\ pc' = "next"
                /\ UNCHANGED <<req, replies, sent, response, stdout_line, written,
                               flushed>>
           ELSE IF ~parsed.ok
           THEN /\ WriteLine(JsonRpcResponse_error(JNull, -32700,
                                                   "Parse error: " \o parsed.e),
                             line_no')
                /\ pc' = "next"
                /\ UNCHANGED <<req, replies, sent, response>>
           ELSE /\ req' = Some(parsed.v)
                /\ RunHandler(parsed.v, <<>>, line_no')
                /\ UNCHANGED replies

\* the backend answers the request in flight: handle_request resumes
BackendReply(reply) ==
    /\ UNCHANGED client
    /\ pc = "await"
    /\ Len(sent) > Len(replies)
    /\ reply \in RepliesTo(sent[Len(sent)].request)
    /\ replies' = Append(replies, reply)
    /\ RunHandler(req.v, replies', line_no)
    /\ UNCHANGED <<line_no, line, req>>

\* a loop that gives up once it has written an error envelope
Flush_until_error ==
    /\ UNCHANGED client
    /\ pc = "next"
    /\ ~flushed
    /\ flushed' = TRUE
    /\ pc' = IF response.some /\ response.v.error.some THEN "exit" ELSE "read"
    /\ line' = None
    /\ req' = None
    /\ replies' = <<>>
    /\ sent' = <<>>
    /\ response' = None
    /\ stdout_line' = None
    /\ UNCHANGED <<line_no, written>>

\* stdout takes the line: the write returns, and with it the loop body
\* ends (the write is its last statement, or is followed by continue): its
\* locals are dropped
Flush ==
    /\ UNCHANGED client
    /\ pc = "next"
    /\ ~flushed
    /\ flushed' = TRUE
    /\ pc' = "read"
    /\ line' = None
    /\ req' = None
    /\ replies' = <<>>
    /\ sent' = <<>>
    /\ response' = None
    /\ stdout_line' = None
    /\ UNCHANGED <<line_no, written>>

\* the end of a loop body that wrote nothing (an empty line, a
\* notification): its locals are dropped
NextIteration ==
    /\ UNCHANGED client
    /\ pc = "next"
    /\ flushed
    /\ pc' = "read"
    /\ line' = None
    /\ req' = None
    /\ replies' = <<>>
    /\ sent' = <<>>
    /\ response' = None
    /\ stdout_line' = None
    /\ UNCHANGED <<line_no, written, flushed>>

\* stdin yields Err(e): log and break
ReadError ==
    /\ UNCHANGED client
    /\ at_next_line
    /\ pc' = "exit"
    /\ UNCHANGED <<line_no, line, req, replies, sent, response, stdout_line, written,
                   flushed>>

\* stdin is at end-of-stream: the loop ends
EndOfInput ==
    /\ UNCHANGED client
    /\ at_next_line
    /\ pc' = "exit"
    /\ UNCHANGED <<line_no, line, req, replies, sent, response, stdout_line, written,
                   flushed>>

Next ==
    \/ \E l \in Lines : ReadLine(l)
    \/ \E reply \in CurrencyReplies \cup GenericReplies : BackendReply(reply)
    \/ Flush
    \/ NextIteration
    \/ ReadError
    \/ EndOfInput

Spec == Init /\ [][Next]_vars

\* The loop as the process runs it: the input is finite, so the blocking
\* read of stdin that is given no further line and no error returns
\* end-of-stream, and a loop body that has nothing to write runs to its
\* end.  Whether the backend answers and whether stdout takes what is
\* written to it are left open: a request may stay in flight for ever, and
\* so may a write (Flush has no fairness).
LiveSpec ==
    /\ Init
    /\ [][Next]_vars
    /\ WF_vars(EndOfInput)
    /\ WF_vars(NextIteration)

TypeOK ==
    /\ pc \in {"read", "await", "next", "exit"}
    /\ flushed \in BOOLEAN
    /\ line_no \in 0..MaxLines
    /\ Len(sent) <= 2

---------------------------------------------------------------------------
\* Vocabulary of the properties

\* the number of lines written to stdout for input line n
WrittenFor(n) == Cardinality({i \in DOMAIN written : written[i] = n})

\* the id member of a request text: Some(value) when the member is there
\* (null included), None when it is not; the array form holds it second
id_member(val) ==
    CASE val.t = "obj" -> get(val, "id")
      [] val.t = "arr" /\ Len(val.a) >= 2 -> Some(val.a[2])
      [] OTHER -> None

\* the line being handled is a request that decodes
DecodedLine == line.some /\ req.some

\* the requests issued so far for the line being handled
SentRequests == [i \in 1..Len(sent) |-> sent[i].request]

\* the requests handle_request asks for when it runs r against the replies rs
RECURSIVE requests_of(_, _, _)
requests_of(r, rs, i) ==
    IF i > Len(rs) THEN <<>>
    ELSE LET step == handle_request(r, SubSeq(rs, 1, i))
         IN  (IF step.k = "await" THEN <<step.request>> ELSE <<>>)
             \o requests_of(r, rs, i + 1)

RequestsOf(r, rs) == requests_of(r, rs, 0)

---------------------------------------------------------------------------
\* C1: a decodable request line without an id member never has a response
\* line written for it, whatever its method, and it is still handled in
\* full: handle_request returns a response for it, and it issues the backend
\* requests that the same request carrying an id issues against the same
\* backend replies.
C1_NotificationNeverAnswered ==
    (DecodedLine /\ ~id_member(line.v.v).some) =>
        /\ stdout_line = None
        /\ WrittenFor(line_no) = 0
        /\ SentRequests = RequestsOf([req.v EXCEPT !.id = Some(JNum(1))], replies)
        /\ (pc = "next" => response.some)

\* a tools/call without id has run both backend round-trips of create_order
\* or topup_order and nothing was written
C1_Witness ==
    /\ pc = "next"
    /\ DecodedLine
    /\ ~id_member(line.v.v).some
    /\ req.v.method = "tools/call"
    /\ Len(sent) = 2
    /\ Len(replies) = 2
    /\ response.some
    /\ stdout_line = None


---------------------------------------------------------------------------
\* C2: every decodable request line whose id member is present, whatever
\* its value and JSON null included, has exactly one response line written
\* for it once it is handled, and that line's id equals the request's id.
\* (The code reads "id": null as Option::None and writes nothing.)
C2_PresentIdAnswered ==
    (pc = "next" /\ DecodedLine /\ id_member(line.v.v).some) =>
        /\ WrittenFor(line_no) = 1
        /\ stdout_line.some
        /\ stdout_line.v.o["id"] = id_member(line.v.v).v

---------------------------------------------------------------------------
\* Outcome of a tools/call, told from what the backend saw and answered

NamedTool == call_tool_name(req.v.params)
GivenArgs == call_args(req.v.params)

IsToolCall == DecodedLine /\ req.v.method = "tools/call"

CurrenciesUrl == client.base_url \o "/v1/currencies"

\* a reply that carries a JSON body under a 2xx status
GoodReply(reply) ==
    /\ reply.k = "response"
    /\ reply.body.some
    /\ reply.status \in 200..299

\* the tool's own request (for create_order and topup_order: the order
\* request, not the currency list) was sent last and answered with 2xx JSON
ToolSucceeded ==
    /\ Len(sent) > 0
    /\ Len(replies) = Len(sent)
    /\ GoodReply(replies[Len(replies)])
    /\ \/ NamedTool = "list_currencies"
       \/ sent[Len(sent)].request.url # CurrenciesUrl

\* the result member of a response envelope is one text content block
OneTextBlock(result) ==
    /\ result.t = "obj"
    /\ "content" \in DOMAIN result.o
    /\ result.o["content"].t = "arr"
    /\ Len(result.o["content"].a) = 1
    /\ LET block == result.o["content"].a[1]
       IN  /\ block.t = "obj"
           /\ DOMAIN block.o = {"type", "text"}
           /\ block.o["type"] = JStr("text")
           /\ block.o["text"].t = "str"

\* the result member carries the error flag
Flagged(result) ==
    /\ "isError" \in DOMAIN result.o
    /\ result.o["isError"] = JBool(TRUE)

\* C3: whatever the outcome of a tools/call, its response is a JSON-RPC
\* success envelope (result present, error absent) with a single text
\* content block; a failing outcome has isError true, a successful one has
\* no isError member.
C3_ToolCallAlwaysSuccessEnvelope ==
    (pc = "next" /\ IsToolCall) =>
        /\ response.some
        /\ LET w == serialize_response(response.v).o
           IN  /\ "result" \in DOMAIN w
               /\ "error" \notin DOMAIN w
               /\ OneTextBlock(w["result"])
               /\ IF ToolSucceeded
                  THEN "isError" \notin DOMAIN w["result"].o
                  ELSE Flagged(w["result"])

\* a tools/call whose backend request failed was answered with a flagged
\* success envelope
C3_Witness ==
    /\ pc = "next"
    /\ IsToolCall
    /\ Len(replies) = 1
    /\ ~GoodReply(replies[1])
    /\ stdout_line.some
    /\ "result" \in DOMAIN stdout_line.v.o
    /\ Flagged(stdout_line.v.o["result"])


---------------------------------------------------------------------------
\* the required keys of a tool, as its catalog entry lists them
RequiredKeys(tool) ==
    LET defs == SelectSeq(get_tools.a, LAMBDA d : d.o["name"] = JStr(tool))
        required == defs[1].o["inputSchema"].o["required"].a
    IN  [i \in 1..Len(required) |-> required[i].s]

\* key is missing from the arguments or holds a value that is not a string
NotAString(args, key) ==
    ~(args.t = "obj" /\ key \in DOMAIN args.o /\ args.o[key].t = "str")

\* the response handle_request returned is a success envelope with a flagged
\* text block whose text contains key
FlaggedNaming(key) ==
    /\ response.some
    /\ LET w == serialize_response(response.v).o
       IN  /\ "result" \in DOMAIN w
           /\ "error" \notin DOMAIN w
           /\ OneTextBlock(w["result"])
           /\ Flagged(w["result"])
           /\ str_contains(w["result"].o["content"].a[1].o["text"].s, key)

\* C4 as stated: for every tool and every required key k, a call whose
\* arguments lack k or hold a non-string at k is answered with a flagged
\* error naming k, whatever the other keys are.
C4_EveryBadKeyNamed ==
    (pc = "next" /\ IsToolCall /\ NamedTool \in ToolNames) =>
        \A i \in 1..Len(RequiredKeys(NamedTool)) :
            NotAString(GivenArgs, RequiredKeys(NamedTool)[i]) =>
                FlaggedNaming(RequiredKeys(NamedTool)[i])

\* C4 amended: the flagged error names the first required key, in the order
\* of the tool's required list, that is missing or not a string; so it names
\* k whenever every required key listed before k is a string.  No backend
\* request is involved and the envelope is a JSON-RPC success.
C4_FirstBadKeyNamed ==
    (pc = "next" /\ IsToolCall /\ NamedTool \in ToolNames) =>
        LET keys == RequiredKeys(NamedTool)
        IN  \A i \in 1..Len(keys) :
                (/\ NotAString(GivenArgs, keys[i])
                 /\ \A j \in 1..(i - 1) : ~NotAString(GivenArgs, keys[j]))
                => /\ FlaggedNaming(keys[i])
                   /\ \A k \in ArgKeys \ {keys[i]} : ~FlaggedNaming(k)

\* topup_order with a string api_key and order_id but a package_id that is
\* present and not a string was answered
C4_Witness ==
    /\ pc = "next"
    /\ IsToolCall
    /\ NamedTool = "topup_order"
    /\ ~NotAString(GivenArgs, "api_key")
    /\ ~NotAString(GivenArgs, "order_id")
    /\ "package_id" \in DOMAIN GivenArgs.o
    /\ NotAString(GivenArgs, "package_id")
    /\ FlaggedNaming("package_id")


---------------------------------------------------------------------------
\* the text of the line being handled, trimmed, is not empty and is not a
\* request: it is no JSON at all, or JSON without a string jsonrpc or a
\* string method member (nor the four-element array form)
UndecodableLine ==
    /\ line.some
    /\ \/ line.v.k = "text" /\ Len(trim(line.v.s)) > 0
       \/ line.v.k = "json" /\ line.v.v \in OtherValues

\* C5: every input line that is not empty (once trimmed, as the transport
\* loop defines it) and does not decode as a request has exactly one
\* response line written for it, with id null, error code -32700 and no
\* result, and no backend request is issued for it.
C5_ParseErrorAnswered ==
    UndecodableLine =>
        /\ pc = "next"
        /\ req = None
        /\ sent = <<>>
        /\ WrittenFor(line_no) = 1
        /\ stdout_line.some
        /\ LET w == stdout_line.v.o
           IN  /\ w["id"] = JNull
               /\ "result" \notin DOMAIN w
               /\ "error" \in DOMAIN w
               /\ w["error"].o["code"] = JNum(-32700)

\* a line of valid JSON that lacks a request field was answered after an
\* earlier line had been answered too
C5_Witness ==
    /\ UndecodableLine
    /\ line.v.k = "json"
    /\ line.v.v.t = "obj"
    /\ written = <<1, 2>>
    /\ stdout_line.some
    /\ stdout_line.v.o["error"].o["code"] = JNum(-32700)

---------------------------------------------------------------------------
KnownMethods ==
    {"initialize", "tools/list", "tools/call", "notifications/initialized",
     "notifications/cancelled"}

\* C6: a request whose method is none of the five known methods yields a
\* JSON-RPC error envelope of code -32601 whose message names the method,
\* without a result member, and no backend request is issued for it; when
\* the request carries an id the envelope is the line written for it and
\* echoes the id.  (An id of null is read as no id: see C2.)
C6_UnknownMethodError ==
    (DecodedLine /\ req.v.method \notin KnownMethods) =>
        /\ pc = "next"
        /\ sent = <<>>
        /\ response.some
        /\ LET w == serialize_response(response.v).o
           IN  /\ "result" \notin DOMAIN w
               /\ "error" \in DOMAIN w
               /\ w["error"].o["code"] = JNum(-32601)
               /\ w["error"].o["message"].t = "str"
               /\ str_contains(w["error"].o["message"].s, req.v.method)
               /\ req.v.id.some =>
                     /\ WrittenFor(line_no) = 1
                     /\ stdout_line = Some(serialize_response(response.v))
                     /\ w["id"] = req.v.id.v

\* an unknown method carrying an id was answered
C6_Witness ==
    /\ DecodedLine
    /\ req.v.id = Some(JStr("req-é\t" \o code_char(8)))
    /\ req.v.method = "resources/list"
    /\ stdout_line.some
    /\ "error" \in DOMAIN stdout_line.v.o
    /\ stdout_line.v.o["id"] = JStr("req-é\t" \o code_char(8))

---------------------------------------------------------------------------
\* C7: every response line written to stdout, after any sequence of input
\* lines, has exactly one of the members result and error.
C7_ResultXorError ==
    stdout_line.some =>
        LET w == stdout_line.v.o
        IN  ("result" \in DOMAIN w) # ("error" \in DOMAIN w)

\* the second line written answers a notification method sent with an id:
\* its result member is there and holds null
C7_Witness ==
    /\ Len(written) = 2
    /\ stdout_line.some
    /\ req.some
    /\ req.v.method = "notifications/cancelled"
    /\ "result" \in DOMAIN stdout_line.v.o
    /\ stdout_line.v.o["result"] = JNull


---------------------------------------------------------------------------
\* what holds of stdout and the backend at every moment: responses are
\* written in the order of their lines, every request issued for the line in
\* hand belongs to the line read last, and nothing is written for a line
\* while one of its round-trips is outstanding
InOrder ==
    /\ \A i \in DOMAIN written :
          /\ written[i] <= line_no
          /\ i > 1 => written[i - 1] < written[i]
    /\ \A i \in DOMAIN sent : sent[i].line = line_no
    /\ Len(sent) > Len(replies) => (stdout_line = None /\ WrittenFor(line_no) = 0)
    /\ Len(sent) <= Len(replies) + 1

\* the handling of the line in hand is over: no round-trip is outstanding
\* and the response of a request with an id has been written
LineDone ==
    /\ Len(sent) = Len(replies)
    /\ (req.some /\ req.v.id.some) => WrittenFor(line_no) = 1

\* C8: responses are written in the order their requests were read and
\* lines are handled strictly one after another: a line is read only when
\* no earlier line is in hand, and a line leaves the loop body only when all
\* its backend round-trips are complete and its response, if it has one, is
\* written; so no backend request of a later line precedes them.
C8_StrictlySequential ==
    /\ []InOrder
    /\ [][line_no' # line_no => (line = None /\ sent = <<>>)]_vars
    /\ [][(line.some /\ line' # line) => LineDone]_vars

\* two lines were read and answered in turn, the second after two backend
\* round-trips
C8_Witness ==
    /\ written = <<1, 2>>
    /\ line_no = 2
    /\ Len(sent) = 2
    /\ Len(replies) = 2
    /\ stdout_line.some

---------------------------------------------------------------------------
\* the call names a tool of the catalog and every required argument of
\* that tool is a string
ValidCall ==
    /\ NamedTool \in ToolNames
    /\ \A i \in 1..Len(RequiredKeys(NamedTool)) :
          ~NotAString(GivenArgs, RequiredKeys(NamedTool)[i])

OrderTools == {"create_order", "topup_order"}

\* pay_currency is supplied as a string to a tool that validates it
CurrencyGiven ==
    /\ NamedTool \in OrderTools
    /\ ~NotAString(GivenArgs, "pay_currency")

\* the body of a currency-list reply has an array-valued currencies member
HasCurrencyArray(body) ==
    body.t = "obj" /\ "currencies" \in DOMAIN body.o /\ body.o["currencies"].t = "arr"

\* the body lists no string equal to the lower-cased currency
Rejects(body, currency) ==
    /\ HasCurrencyArray(body)
    /\ \A i \in DOMAIN body.o["currencies"].a :
          LET entry == body.o["currencies"].a[i]
          IN  entry.t = "str" => entry.s # to_lowercase(currency)

\* C9 as stated: each tools/call results in exactly one backend request, or
\* exactly two when the tool is create_order or topup_order and a
\* pay_currency is supplied.
C9_AlwaysOneOrTwo ==
    (pc = "next" /\ IsToolCall) =>
        Len(sent) = IF /\ NamedTool \in OrderTools
                       /\ GivenArgs.t = "obj"
                       /\ "pay_currency" \in DOMAIN GivenArgs.o
                    THEN 2 ELSE 1

\* C9 amended: a tools/call that names a known tool with all required
\* arguments strings results in exactly one backend request; or, when the
\* tool is create_order or topup_order and pay_currency is a string, in the
\* currency-list request followed by the order request if the list request
\* succeeds and does not reject the currency, and in the currency-list
\* request alone if it fails or rejects.  Any other tools/call results in
\* no backend request.
C9_RequestCount ==
    (pc = "next" /\ IsToolCall) =>
        IF ~ValidCall THEN Len(sent) = 0
        ELSE IF ~CurrencyGiven THEN Len(sent) = 1
        ELSE /\ Len(sent) \in {1, 2}
             /\ sent[1].request.url = CurrenciesUrl
             /\ IF /\ GoodReply(replies[1])
                   /\ ~Rejects(replies[1].body.v, GivenArgs.o["pay_currency"].s)
                THEN /\ Len(sent) = 2
                     /\ sent[2].request.method = "POST"
                     /\ sent[2].request.url # CurrenciesUrl
                ELSE Len(sent) = 1

\* create_order with a listed pay_currency made its two requests
C9_Witness ==
    /\ pc = "next"
    /\ IsToolCall
    /\ NamedTool = "create_order"
    /\ CurrencyGiven
    /\ Len(sent) = 2
    /\ sent[1].request.url = CurrenciesUrl
    /\ sent[2].request.url = client.base_url \o "/v1/orders"
    /\ GoodReply(replies[1])
    /\ HasCurrencyArray(replies[1].body.v)

---------------------------------------------------------------------------
\* C10: for create_order and topup_order with a supplied pay_currency, a
\* currency that equals a listed currency when letter case is ignored on
\* both sides passes validation, and the order request is then sent.
\* (The code lower-cases the supplied currency only.)
C10_CaseInsensitiveMembership ==
    (/\ pc = "next"
     /\ IsToolCall
     /\ ValidCall
     /\ CurrencyGiven
     /\ GoodReply(replies[1])
     /\ HasCurrencyArray(replies[1].body.v)
     /\ \E i \in DOMAIN replies[1].body.v.o["currencies"].a :
           LET entry == replies[1].body.v.o["currencies"].a[i]
           IN  /\ entry.t = "str"
               /\ to_lowercase(entry.s)
                    = to_lowercase(GivenArgs.o["pay_currency"].s))
    => /\ Len(sent) = 2
       /\ sent[2].request.method = "POST"
       /\ sent[2].request.url # CurrenciesUrl


---------------------------------------------------------------------------
\* the text of the content block of the response handle_request returned
ResponseText == response.v.result.v.o["content"].a[1].o["text"].s

\* the response handle_request returned is a success envelope with one
\* flagged text block
FlaggedResponse ==
    /\ response.some
    /\ response.v.result.some
    /\ ~response.v.error.some
    /\ OneTextBlock(response.v.result.v)
    /\ Flagged(response.v.result.v)

\* the first request of the call in hand was the currency list of an order
\* tool and it was answered with 2xx JSON whose currencies member is an array
CurrencySetReturned ==
    /\ IsToolCall
    /\ NamedTool \in OrderTools
    /\ CurrencyGiven
    /\ Len(replies) >= 1
    /\ sent[1].request.url = CurrenciesUrl
    /\ GoodReply(replies[1])
    /\ HasCurrencyArray(replies[1].body.v)

\* the strings of the returned currencies array
ListedCurrencies ==
    LET arr == replies[1].body.v.o["currencies"].a
    IN  {arr[i].s : i \in {j \in DOMAIN arr : arr[j].t = "str"}}

\* C11: for create_order and topup_order, when the supplied pay_currency is
\* not a member (letter case ignored) of the currency set the backend
\* returned, the tool call fails with a flagged message that names the
\* currency and lists every valid currency, and the order or top-up request
\* is never sent: the currency list stays the call's only request.
C11_NonMemberRejected ==
    (/\ CurrencySetReturned
     /\ \A c \in ListedCurrencies :
           to_lowercase(c) # to_lowercase(GivenArgs.o["pay_currency"].s))
    => /\ pc = "next"
       /\ Len(sent) = 1
       /\ Len(replies) = 1
       /\ FlaggedResponse
       /\ str_contains(ResponseText, "Invalid pay_currency")
       /\ str_contains(ResponseText, GivenArgs.o["pay_currency"].s)
       /\ \A c \in ListedCurrencies : str_contains(ResponseText, c)

\* topup_order with pay_currency xmr was rejected against a list that holds
\* btc, and only the currency list was requested
C11_Witness ==
    /\ CurrencySetReturned
    /\ NamedTool = "topup_order"
    /\ GivenArgs.o["pay_currency"] = JStr("xmr")
    /\ "btc" \in ListedCurrencies
    /\ pc = "next"
    /\ Len(sent) = 1
    /\ FlaggedResponse
    /\ str_contains(ResponseText, "btc")

---------------------------------------------------------------------------
\* the first request of the call in hand was the currency list of an order
\* tool and it failed: no reply, a body that is not JSON, or a status
\* outside 2xx
CurrencyListFailed ==
    /\ IsToolCall
    /\ NamedTool \in OrderTools
    /\ CurrencyGiven
    /\ Len(replies) >= 1
    /\ sent[1].request.url = CurrenciesUrl
    /\ ~GoodReply(replies[1])

\* the text reports the failure of reply: of the transport, of the body's
\* parse, or of the status
ReportsFailure(text, reply) ==
    IF reply.k = "send_error" THEN str_contains(text, "HTTP error: ")
    ELSE IF ~reply.body.some THEN str_contains(text, "Parse error: ")
    ELSE /\ str_contains(text, "API error (")
         /\ str_contains(text, nat_to_string(reply.status))

\* C12: when the currency-validation request of create_order or topup_order
\* fails (transport failure, unparseable body or non-2xx status), that
\* failure is the flagged error of the tool call and the order or top-up
\* request is not sent.
C12_ValidationFailurePropagates ==
    CurrencyListFailed =>
        /\ pc = "next"
        /\ Len(sent) = 1
        /\ Len(replies) = 1
        /\ FlaggedResponse
        /\ ReportsFailure(ResponseText, replies[1])

\* create_order's currency list was answered 401 and the call ended there
C12_Witness ==
    /\ CurrencyListFailed
    /\ NamedTool = "create_order"
    /\ replies[1].k = "response"
    /\ replies[1].status = 401
    /\ pc = "next"
    /\ Len(sent) = 1
    /\ FlaggedResponse
    /\ str_contains(ResponseText, "401")

---------------------------------------------------------------------------
\* the reply that ended the tools/call in hand
LastReply == replies[Len(replies)]

\* a tools/call has returned after at least one backend reply
CallAnswered ==
    /\ pc = "next"
    /\ IsToolCall
    /\ Len(replies) >= 1

\* the reply came with a status outside 200..299
Non2xx(reply) ==
    /\ reply.k = "response"
    /\ reply.status \notin 200..299

\* C13 as stated: whatever the body holds, a non-2xx reply of any backend
\* operation ends the call with an error string that embeds the numeric
\* status.
C13_EveryNon2xxEmbedsStatus ==
    (CallAnswered /\ Non2xx(LastReply)) =>
        /\ FlaggedResponse
        /\ str_contains(ResponseText, nat_to_string(LastReply.status))

\* C13 (amended): for every backend operation a non-2xx reply is a failure;
\* when its body is JSON the error string embeds the numeric status and the
\* body, when its body is not JSON the error string is the parse failure
\* and embeds neither; a success value comes only from a 2xx reply.
C13_Non2xxIsFailure ==
    CallAnswered =>
        /\ (Non2xx(LastReply) /\ LastReply.body.some) =>
              /\ FlaggedResponse
              /\ str_contains(ResponseText, "API error (")
              /\ str_contains(ResponseText, nat_to_string(LastReply.status))
              /\ str_contains(ResponseText, to_string(LastReply.body.v))
        /\ (Non2xx(LastReply) /\ ~LastReply.body.some) =>
              /\ FlaggedResponse
              /\ str_contains(ResponseText, "Parse error: ")
              /\ ~str_contains(ResponseText, nat_to_string(LastReply.status))
        /\ ~Flagged(response.v.result.v) =>
              /\ LastReply.k = "response"
              /\ LastReply.status \in 200..299
              /\ LastReply.body.some

\* rotate_proxy was answered 404 with a JSON body and the error text holds
\* both the status and the body
C13_Witness ==
    /\ CallAnswered
    /\ NamedTool = "rotate_proxy"
    /\ Non2xx(LastReply)
    /\ LastReply.status = 404
    /\ LastReply.body = Some(ErrorBody)
    /\ FlaggedResponse
    /\ str_contains(ResponseText, "404")
    /\ str_contains(ResponseText, to_string(ErrorBody))

---------------------------------------------------------------------------
\* the endpoint of a backend request: its HTTP method and its URL
Endpoint(request) == <<request.method, request.url>>

\* C14: no retries.  Within one tool call no backend endpoint is requested
\* more than once, and once a backend request of the call has failed
\* (no reply, a body that is not JSON, or a non-2xx status) no further
\* backend request is issued for that call.
C14_NoRetry ==
    /\ \A i \in DOMAIN sent : sent[i].line = line_no
    /\ \A i, j \in DOMAIN sent :
          i < j => Endpoint(sent[i].request) # Endpoint(sent[j].request)
    /\ \A i \in DOMAIN replies :
          ~GoodReply(replies[i]) => /\ Len(sent) = i
                                    /\ pc = "next"

\* create_order fetched the currency list, then sent the order request,
\* which failed in transport; the call returned with those two requests
C14_Witness ==
    /\ IsToolCall
    /\ NamedTool = "create_order"
    /\ pc = "next"
    /\ Len(sent) = 2
    /\ Len(replies) = 2
    /\ GoodReply(replies[1])
    /\ replies[2].k = "send_error"
    /\ FlaggedResponse

---------------------------------------------------------------------------
\* the line in hand was answered with an error: a parse error or an
\* unknown method (error envelope), or a failing tools/call (flagged block)
LineFailed ==
    \/ /\ line.some /\ ~req.some /\ stdout_line.some
    \/ /\ response.some /\ response.v.error.some
    \/ FlaggedResponse

\* C15 as it is stated: no protocol-level or tool-level error stops the
\* transport loop.  Whatever a line's outcome (parse error, unknown method
\* and failing tools/call included) the loop goes on to read stdin again,
\* where a next line can be read and processed; the loop ends only at the
\* read of stdin, by end-of-stream or a read error, consuming no line and
\* writing nothing; and on a finite input whose backend requests all
\* complete (the loop never waits for a reply for ever) the loop eventually
\* ends.  (It does not when a write to stdout never returns.)
C15_EndsWhenBackendCompletes ==
    /\ [][(pc = "next" /\ pc' # "next") => pc' = "read"]_vars
    /\ [][(pc # "exit" /\ pc' = "exit") =>
             /\ pc = "read"
             /\ UNCHANGED <<line_no, line, req, replies, sent, response,
                            stdout_line, written, flushed>>]_vars
    /\ []((pc = "read" /\ line_no < MaxLines) => ENABLED (\E l \in Lines : ReadLine(l)))
    /\ []((pc = "next" /\ LineFailed) => <>(pc = "read"))
    /\ ([]<>(pc # "await")) => <>(pc = "exit")

\* C15, amended: no protocol-level or tool-level error stops the transport
\* loop.  The loop body is left for the read of stdin only, where a next
\* line can be read and processed; the loop ends only at the read of stdin,
\* by end-of-stream or a read error, consuming no line and writing nothing;
\* and provided that stdout takes every line written to it (no write stays
\* unreturned for ever), the loop reads stdin again after every line that
\* failed (parse error, unknown method, failing tools/call), and on a
\* finite input whose backend requests all complete it eventually ends.
C15_OnlyInputEndsLoop ==
    /\ [][(pc = "next" /\ pc' # "next") => pc' = "read"]_vars
    /\ [][(pc # "exit" /\ pc' = "exit") =>
             /\ pc = "read"
             /\ UNCHANGED <<line_no, line, req, replies, sent, response,
                            stdout_line, written, flushed>>]_vars
    /\ []((pc = "read" /\ line_no < MaxLines) => ENABLED (\E l \in Lines : ReadLine(l)))
    /\ ([]<>flushed) => []((pc = "next" /\ LineFailed) => <>(pc = "read"))
    /\ ([]<>flushed /\ []<>(pc # "await")) => <>(pc = "exit")

\* a second line, a tools/call that failed at the backend, was read and
\* processed after the first line, whose write has returned, and its
\* response is being written
C15_Witness ==
    /\ line_no = 2
    /\ pc = "next"
    /\ IsToolCall
    /\ Len(replies) >= 1
    /\ LineFailed
    /\ WrittenFor(1) = 1
    /\ WrittenFor(2) = 1
    /\ ~flushed

---------------------------------------------------------------------------
\* What the handling of the input line l has produced once the backend
\* replies rs have been received for it, as a function of l, rs and the
\* client built at start (which no action changes):
\* the backend requests issued, whether a reply is awaited, the response
\* handle_request returned and the line written to stdout.
OutcomeOf(l, rs) ==
    LET trimmed == trim_line(l)
        parsed == from_str(trimmed)
    IN  IF line_is_empty(trimmed)
        THEN [requests |-> <<>>, waiting |-> FALSE,
              response |-> None, stdout_line |-> None]
        ELSE IF ~parsed.ok
        THEN [requests |-> <<>>, waiting |-> FALSE, response |-> None,
              stdout_line |-> Some(serialize_response(
                  JsonRpcResponse_error(JNull, -32700, "Parse error: " \o parsed.e)))]
        ELSE LET step == handle_request(parsed.v, rs)
             IN  [requests |-> RequestsOf(parsed.v, rs),
                  waiting |-> step.k = "await",
                  response |-> IF step.k = "await" THEN None ELSE Some(step.result),
                  stdout_line |-> IF step.k = "await" \/ ~parsed.v.id.some THEN None
                                  ELSE Some(serialize_response(step.result))]

\* C16: the bridge is stateless across requests.  At every point of every
\* run, whatever lines came before and whatever was answered to them, the
\* backend requests issued for the line in hand, the response to it and the
\* line written for it are those determined by that line and the backend
\* replies received while handling it; and between two lines nothing of the
\* earlier line is kept.
C16_Stateless ==
    /\ line.some =>
          LET o == OutcomeOf(line.v, replies)
          IN  /\ Len(replies) <= Len(sent)
              /\ \A i \in DOMAIN sent : sent[i].line = line_no
              /\ SentRequests = o.requests
              /\ (pc = "await") = o.waiting
              /\ response = o.response
              /\ stdout_line = o.stdout_line
    /\ ~line.some =>
          /\ req = None
          /\ replies = <<>>
          /\ sent = <<>>
          /\ response = None
          /\ stdout_line = None

\* a second line, initialize with an id, has been answered after a first
\* line that had been answered too
C16_Witness ==
    /\ line_no = 2
    /\ written = <<1, 2>>
    /\ pc = "next"
    /\ req.some
    /\ req.v.method = "initialize"
    /\ stdout_line = OutcomeOf(line.v, <<>>).stdout_line
    /\ stdout_line.some

---------------------------------------------------------------------------
\* the seven tools in the order of the catalog
ToolOrder ==
    <<"register_agent", "list_packages", "list_currencies", "create_order",
      "check_order_status", "topup_order", "rotate_proxy">>

\* handle_request has returned a success envelope that echoes the id of the
\* request (null when there is none) and no backend request was made
SuccessWithoutBackend ==
    /\ pc = "next"
    /\ sent = <<>>
    /\ replies = <<>>
    /\ response.some
    /\ response.v.jsonrpc = "2.0"
    /\ response.v.id = unwrap_or(req.v.id, JNull)
    /\ response.v.result.some
    /\ ~response.v.error.some

\* a tool descriptor with its name, a description and an input schema
IsToolDescriptor(tool, name) ==
    /\ tool.t = "obj"
    /\ DOMAIN tool.o = {"name", "description", "inputSchema"}
    /\ tool.o["name"] = JStr(name)
    /\ tool.o["description"].t = "str"
    /\ Len(tool.o["description"].s) > 0
    /\ tool.o["inputSchema"].t = "obj"
    /\ tool.o["inputSchema"].o["type"] = JStr("object")

\* C17: tools/list always returns, in the same fixed order and whatever its
\* params and the lines before it, exactly the seven tools register_agent,
\* list_packages, list_currencies, create_order, check_order_status,
\* topup_order and rotate_proxy, each with a description and an input
\* schema, and issues no backend request.
C17_ToolsListFixed ==
    (DecodedLine /\ req.v.method = "tools/list") =>
        /\ SuccessWithoutBackend
        /\ response.v.result.v.t = "obj"
        /\ DOMAIN response.v.result.v.o = {"tools"}
        /\ LET tools == response.v.result.v.o["tools"]
           IN  /\ tools.t = "arr"
               /\ Len(tools.a) = Len(ToolOrder)
               /\ \A i \in DOMAIN tools.a : IsToolDescriptor(tools.a[i], ToolOrder[i])

\* tools/list came as the second line, with params, and was answered with
\* a catalog of seven tools
C17_Witness ==
    /\ line_no = 2
    /\ DecodedLine
    /\ req.v.method = "tools/list"
    /\ req.v.params.some
    /\ SuccessWithoutBackend
    /\ Len(response.v.result.v.o["tools"].a) = 7
    /\ WrittenFor(2) = 1

---------------------------------------------------------------------------
\* C18: initialize always returns a success envelope whose result has
\* protocolVersion "2024-11-05", capabilities that expose tool support and
\* nothing else, and serverInfo.name "proxybase-mcp", whatever its params
\* and the lines before it, and issues no backend request.
C18_InitializeFixed ==
    (DecodedLine /\ req.v.method = "initialize") =>
        /\ SuccessWithoutBackend
        /\ LET result == response.v.result.v
           IN  /\ result.t = "obj"
               /\ DOMAIN result.o = {"protocolVersion", "capabilities", "serverInfo"}
               /\ result.o["protocolVersion"] = JStr("2024-11-05")
               /\ result.o["capabilities"].t = "obj"
               /\ DOMAIN result.o["capabilities"].o = {"tools"}
               /\ result.o["serverInfo"].t = "obj"
               /\ result.o["serverInfo"].o["name"] = JStr("proxybase-mcp")

\* initialize came as the second line, with params and an id, and was
\* answered with the handshake
C18_Witness ==
    /\ line_no = 2
    /\ DecodedLine
    /\ req.v.method = "initialize"
    /\ req.v.params.some
    /\ req.v.id.some
    /\ SuccessWithoutBackend
    /\ response.v.result.v.o["protocolVersion"] = JStr("2024-11-05")
    /\ WrittenFor(2) = 1

---------------------------------------------------------------------------
\* the i-th backend request of the call in hand carries a JSON body: it is
\* the order request of create_order or the top-up request of topup_order
HasPayload(i) == sent[i].request.body.some

\* the optional keys the tool called forwards to the backend
OptionalKeys(tool) ==
    IF tool = "create_order" THEN {"pay_currency", "callback_url"}
    ELSE {"pay_currency"}

\* the members the payload holds are the arguments of the same name,
\* unchanged, and none of them is null
ForwardedExactly(payload) ==
    \A k \in DOMAIN payload.o :
        /\ k \in DOMAIN GivenArgs.o
        /\ payload.o[k] = GivenArgs.o[k]
        /\ payload.o[k] # JNull

\* C19 as stated: the body of an order or top-up request holds package_id
\* always and each optional field exactly when the caller supplied an
\* argument of that name, whatever its type.
C19_SuppliedIffSent ==
    IsToolCall =>
        \A i \in DOMAIN sent : HasPayload(i) =>
            /\ NamedTool \in OrderTools
            /\ DOMAIN sent[i].request.body.v.o =
                  {"package_id"}
                  \cup {k \in OptionalKeys(NamedTool) : k \in DOMAIN GivenArgs.o}
            /\ ForwardedExactly(sent[i].request.body.v)

\* C19 (amended): the JSON body of a create_order or topup_order backend
\* request holds package_id always, pay_currency if and only if the caller
\* supplied pay_currency as a string, and (create_order only) callback_url
\* if and only if the caller supplied callback_url as a string; an optional
\* argument of another type is left out like an absent one; what is sent
\* is the argument exactly as given, and no field is sent as null.
C19_StringOptionalsForwarded ==
    IsToolCall =>
        \A i \in DOMAIN sent : HasPayload(i) =>
            /\ NamedTool \in OrderTools
            /\ DOMAIN sent[i].request.body.v.o =
                  {"package_id"}
                  \cup {k \in OptionalKeys(NamedTool) : ~NotAString(GivenArgs, k)}
            /\ ForwardedExactly(sent[i].request.body.v)

\* create_order with pay_currency BTC and a callback_url passed the
\* currency check and its order request holds both, BTC in upper case
C19_Witness ==
    /\ IsToolCall
    /\ NamedTool = "create_order"
    /\ Len(sent) = 2
    /\ HasPayload(2)
    /\ {"pay_currency", "callback_url"} \subseteq DOMAIN GivenArgs.o
    /\ GivenArgs.o["pay_currency"] = JStr("BTC")
    /\ sent[2].request.body.v.o =
          [package_id |-> GivenArgs.o["package_id"],
           pay_currency |-> JStr("BTC"),
           callback_url |-> GivenArgs.o["callback_url"]]

---------------------------------------------------------------------------
\* the i-th backend request of the call in hand is the agent registration
IsRegistration(i) == sent[i].request.url = client.base_url \o "/v1/agents"

\* C20: every backend request other than the agent registration carries an
\* X-API-Key header whose value is, verbatim, the api_key argument of the
\* tools/call being handled, the currency-validation request of create_order
\* and topup_order included; the agent registration carries no X-API-Key
\* header; and every request in flight belongs to the call being handled,
\* so that a key of one call is never attached to a request of another.
C20_ApiKeyOfTheCall ==
    IsToolCall =>
        \A i \in DOMAIN sent :
            /\ sent[i].line = line_no
            /\ IF IsRegistration(i)
               THEN /\ NamedTool = "register_agent"
                    /\ "X-API-Key" \notin DOMAIN sent[i].request.headers
               ELSE /\ "X-API-Key" \in DOMAIN sent[i].request.headers
                    /\ ~NotAString(GivenArgs, "api_key")
                    /\ sent[i].request.headers["X-API-Key"] = GivenArgs.o["api_key"].s

\* the second line, a topup_order under the key pk_b, has sent its currency
\* list and its top-up request, both under pk_b, after a first line was
\* answered
C20_Witness ==
    /\ line_no = 2
    /\ written = <<1>>
    /\ IsToolCall
    /\ NamedTool = "topup_order"
    /\ Len(sent) = 2
    /\ sent[1].request.url = CurrenciesUrl
    /\ sent[1].request.headers["X-API-Key"] = "pk_b"
    /\ sent[2].request.headers["X-API-Key"] = "pk_b"
    /\ GivenArgs.o["api_key"] = JStr("pk_b")

---------------------------------------------------------------------------
\* C21: a tools/call that fails argument validation (a required argument of
\* the tool missing or not a string) or that names an unknown tool or no
\* tool issues no backend request at all and is answered at once with a
\* flagged error; whenever a backend request of a call has been issued, the
\* tool is known and every required argument of it is a string.
C21_NoRequestBeforeValidation ==
    IsToolCall =>
        /\ ~ValidCall => /\ pc = "next"
                         /\ sent = <<>>
                         /\ replies = <<>>
                         /\ FlaggedResponse
        /\ Len(sent) >= 1 => ValidCall

\* topup_order with api_key, order_id and pay_currency strings but a
\* package_id that is not a string was answered with a flagged error naming
\* package_id, and nothing was sent, the currency list included
C21_Witness ==
    /\ IsToolCall
    /\ NamedTool = "topup_order"
    /\ ~NotAString(GivenArgs, "api_key")
    /\ ~NotAString(GivenArgs, "order_id")
    /\ ~NotAString(GivenArgs, "pay_currency")
    /\ NotAString(GivenArgs, "package_id")
    /\ pc = "next"
    /\ sent = <<>>
    /\ FlaggedNaming("package_id")

---------------------------------------------------------------------------
\* the first request of the call in hand was the currency list of an order
\* tool and it was answered with 2xx JSON that has no array-valued
\* currencies member
NoCurrencySetReturned ==
    /\ IsToolCall
    /\ NamedTool \in OrderTools
    /\ CurrencyGiven
    /\ Len(replies) >= 1
    /\ sent[1].request.url = CurrenciesUrl
    /\ GoodReply(replies[1])
    /\ ~HasCurrencyArray(replies[1].body.v)

\* the second request of the call in hand is the order or top-up request
\* and its body holds the pay_currency argument as it was given
OrderSentWithCurrency ==
    /\ Len(sent) = 2
    /\ sent[2].request.method = "POST"
    /\ sent[2].request.url # CurrenciesUrl
    /\ sent[2].request.body.some
    /\ "pay_currency" \in DOMAIN sent[2].request.body.v.o
    /\ sent[2].request.body.v.o["pay_currency"] = GivenArgs.o["pay_currency"]

\* C22: in create_order and topup_order, when a pay_currency is supplied and
\* the currency list comes back 2xx with a body that has no array-valued
\* currencies member, validation is skipped and the order or top-up request
\* is sent with the pay_currency as given; and when the body has a
\* currencies array, only its string entries count: the order is sent
\* exactly when the lower-cased pay_currency is one of them, so that an
\* entry of another type neither matches a currency nor fails the call.
C22_ValidationSkippedWithoutArray ==
    /\ NoCurrencySetReturned => OrderSentWithCurrency
    /\ CurrencySetReturned =>
          IF to_lowercase(GivenArgs.o["pay_currency"].s) \in ListedCurrencies
          THEN OrderSentWithCurrency
          ELSE Len(sent) = 1 /\ pc = "next" /\ FlaggedResponse

\* create_order with pay_currency xmr met a currency list whose currencies
\* member is a string, not an array, and its order request was sent with xmr
C22_Witness ==
    /\ NoCurrencySetReturned
    /\ NamedTool = "create_order"
    /\ replies[1].body.v = JObj([currencies |-> JStr("btc")])
    /\ GivenArgs.o["pay_currency"] = JStr("xmr")
    /\ OrderSentWithCurrency

\* topup_order with pay_currency "1" met a currency list that holds the
\* number 1 and the string btc: the number did not match and the call was
\* rejected with only the currency list requested
C22_NumberEntryIgnored ==
    /\ CurrencySetReturned
    /\ NamedTool = "topup_order"
    /\ GivenArgs.o["pay_currency"] = JStr("1")
    /\ replies[1].body.v = JObj([currencies |-> JArr(<<JNum(1), JStr("btc")>>)])
    /\ Len(sent) = 1
    /\ FlaggedResponse

====
